---- MODULE Spec2Model ----
(***************************************************************************)
(* A model of wthr.lol's weather aggregation layer: the TTL cache table    *)
(* (internal/db/db.go), the aggregation service GetWeather /               *)
(* fetchFreshWeather and the normalizer transform (internal/weather        *)
(* service.go, the version with hourly forecast and live observation).     *)
(*                                                                         *)
(* Strings that the code inspects (icon URLs, unit codes, unit labels) are *)
(* sequences of one-character strings, so that strings.Contains,           *)
(* strings.HasSuffix and strings.LastIndex are computed, not assumed.      *)
(* Strings that the code only copies are TLA+ strings.                     *)
(***************************************************************************)
EXTENDS Integers, Sequences, FiniteSets, TLC

(***************************************************************************)
(* Bounds of the model.                                                    *)
(***************************************************************************)
\* the clock runs from 0 to MaxTime ticks
MaxTime == 3
\* number of clock ticks in one hour (time.Hour)
TicksPerHour == 2
\* longest daily period list given to transform
MaxDaily == 6
\* longest hourly period list given to transform
MaxHourly == 7
\* failures and degraded answers (a missing URL, an empty station list) that
\* the environment gives while requests run concurrently
MaxFaults == 1
\* most fields in the JSON object posted to the app interest form
MaxFields == 3
\* runs of transform on the same arguments
MaxRuns == 2
\* largest magnitude, in tenths of a degree, of an observation given to
\* observationTemperature
MaxTenths == 700

(***************************************************************************)
(* Program constants.                                                      *)
(***************************************************************************)
\* service.go: "if i >= 5 { break }" in the hourly loop
HourlyLimit == 5
\* service.go: "if processedDays >= 5 { break }" in the daily loop
DailyLimit == 5
\* service.go: SetCachedWeather(rLat, rLon, string(data), 1*time.Hour)
CacheTTL == 1 * TicksPerHour
\* service.go: ExpiresAt: time.Now().Add(1 * time.Hour)
SnapshotTTL == 1 * TicksPerHour

VARIABLES
    now,      \* the wall clock (time.Now()), in ticks
    cache,    \* the weather_cache table: key -> row or NoRow
    req,      \* the in-flight GetWeather requests: id -> locals and position
    env,      \* what the environment may still do: requests to start, failures to inject
    arg,      \* function harness: the arguments of the last direct call
    res       \* function harness: the result of the last direct call

vars == <<now, cache, req, env, arg, res>>

(***************************************************************************)
(* Strings as character sequences.                                         *)
(***************************************************************************)
\* strings.Contains(s, substr)
Contains(s, substr) ==
    \E i \in 1..(Len(s) - Len(substr) + 1) :
        SubSeq(s, i, i + Len(substr) - 1) = substr

\* strings.HasSuffix(s, suffix)
HasSuffix(s, suffix) ==
    /\ Len(s) >= Len(suffix)
    /\ SubSeq(s, Len(s) - Len(suffix) + 1, Len(s)) = suffix

\* strings.LastIndex(s, c) for a one-character c; 0-based, -1 when absent
LastIndex(s, c) ==
    LET at == {i \in 1..Len(s) : s[i] = c}
    IN  IF at = {} THEN -1
        ELSE (CHOOSE i \in at : \A j \in at : j <= i) - 1

\* RoundDiv that rounds halves up (math.Floor(x + 0.5))
RoundDivHalfUp(n, d) == (2 * n + d) \div (2 * d)

\* math.Round(n / d) for d > 0: nearest integer, halves away from zero
RoundDiv(n, d) ==
    IF n >= 0 THEN (2 * n + d) \div (2 * d)
    ELSE -((2 * (-n) + d) \div (2 * d))

(***************************************************************************)
(* Values.                                                                 *)
(***************************************************************************)
\* a nil pointer (*ForecastResponse, *ObservationResponse, *CacheEntry)
NilPtr == [nil |-> TRUE]

StrF == <<"F">>
StrDegC == <<"d", "e", "g", "C">>
StrDegF == <<"d", "e", "g", "F">>
StrColon == ":"
StrEmpty == <<>>

\* the keywords of mapIcon
KwSkc == <<"/", "s", "k", "c">>
KwFew == <<"/", "f", "e", "w">>
KwSct == <<"/", "s", "c", "t">>
KwBkn == <<"/", "b", "k", "n">>
KwOvc == <<"/", "o", "v", "c">>
KwRain == <<"/", "r", "a", "i", "n">>
KwShowers == <<"/", "s", "h", "o", "w", "e", "r", "s">>
KwTsra == <<"/", "t", "s", "r", "a">>
KwSnow == <<"/", "s", "n", "o", "w">>
KwFog == <<"/", "f", "o", "g">>
KwWind == <<"/", "w", "i", "n", "d">>

\* mapIcon maps an NWS icon URL to a Material Symbol name
mapIcon(iconURL, isDaytime) ==
    IF Contains(iconURL, KwSkc) \/ Contains(iconURL, KwFew)
    THEN (IF ~isDaytime THEN "clear_night" ELSE "sunny")
    ELSE IF Contains(iconURL, KwSct) \/ Contains(iconURL, KwBkn)
    THEN (IF ~isDaytime THEN "partly_cloudy_night" ELSE "partly_cloudy_day")
    ELSE IF Contains(iconURL, KwOvc) THEN "cloud"
    ELSE IF Contains(iconURL, KwRain) \/ Contains(iconURL, KwShowers) THEN "rainy"
    ELSE IF Contains(iconURL, KwTsra) THEN "thunderstorm"
    ELSE IF Contains(iconURL, KwSnow) THEN "weather_snowy"
    ELSE IF Contains(iconURL, KwFog) THEN "foggy"
    ELSE IF Contains(iconURL, KwWind) THEN "air"
    ELSE "thermostat"

(***************************************************************************)
(* A period's startTime is "" ([form |-> "empty"]), a text that            *)
(* time.Parse(time.RFC3339, .) rejects ([form |-> "invalid"]), or an       *)
(* RFC3339 timestamp, of which the model keeps the hour written in the     *)
(* text and the zone offset in hours.                                      *)
(***************************************************************************)
StartEmpty == [form |-> "empty", hour |-> 0, offset |-> 0]
StartInvalid == [form |-> "invalid", hour |-> 0, offset |-> 0]
StartAt(h, off) == [form |-> "rfc3339", hour |-> h, offset |-> off]

\* time.Time.Format("3 PM"): the 12-hour clock hour and the AM/PM mark of
\* the time in its own location, which time.Parse set to the text's offset
Format3PM(hour) ==
    LET h12 == IF hour % 12 = 0 THEN 12 ELSE hour % 12
    IN  ToString(h12) \o (IF hour < 12 THEN " AM" ELSE " PM")

formatHourlyLabel(startTime, fallback) ==
    IF startTime.form = "empty" THEN fallback
    ELSE IF startTime.form = "invalid" THEN fallback
    ELSE Format3PM(startTime.hour)

(***************************************************************************)
(* An observation's temperature value is null, NaN or a number, kept in    *)
(* tenths of a degree.                                                     *)
(***************************************************************************)
ValNull == [kind |-> "null", tenths |-> 0]
ValNaN == [kind |-> "nan", tenths |-> 0]
ValNum(t) == [kind |-> "num", tenths |-> t]

\* observationTemperature returns (temp, unit, ok)
observationTemperature(obs) ==
    IF obs = NilPtr THEN [temp |-> 0, unit |-> StrEmpty, ok |-> FALSE]
    ELSE LET temp == obs.Value
             unitCode == obs.UnitCode
         IN  IF temp.kind = "null" \/ temp.kind = "nan"
             THEN [temp |-> 0, unit |-> StrEmpty, ok |-> FALSE]
             ELSE IF HasSuffix(unitCode, StrDegC)
             THEN \* f := (*temp * 9.0 / 5.0) + 32.0
                  [temp |-> RoundDiv(9 * temp.tenths + 1600, 50),
                   unit |-> StrF, ok |-> TRUE]
             ELSE IF HasSuffix(unitCode, StrDegF)
             THEN [temp |-> RoundDiv(temp.tenths, 10), unit |-> StrF, ok |-> TRUE]
             ELSE LET idx == LastIndex(unitCode, StrColon)
                      displayUnit ==
                          IF idx # -1 /\ idx + 1 < Len(unitCode)
                          THEN SubSeq(unitCode, idx + 2, Len(unitCode))
                          ELSE unitCode
                  IN  [temp |-> RoundDiv(temp.tenths, 10),
                       unit |-> displayUnit, ok |-> TRUE]

(***************************************************************************)
(* transform: the normalizer.                                              *)
(***************************************************************************)
\* the zero value of CurrentCondition
ZeroCurrent ==
    [Temperature |-> 0, TemperatureUnit |-> StrEmpty, ShortForecast |-> "",
     Precipitation |-> 0, WindSpeed |-> "", WindDirection |-> "",
     Icon |-> "", HighTemp |-> 0, LowTemp |-> 0]

\* HourlyLoop that keeps the last HourlyLimit periods instead of the first
RECURSIVE HourlyLoopLastFive(_, _, _)
HourlyLoopLastFive(periods, i, acc) ==
    IF i > Len(periods) THEN acc
    ELSE IF i <= Len(periods) - HourlyLimit
    THEN HourlyLoopLastFive(periods, i + 1, acc)
    ELSE LET p == periods[i]
         IN  HourlyLoopLastFive(periods, i + 1,
                 Append(acc,
                     [Name |-> formatHourlyLabel(p.StartTime, p.Name),
                      Temperature |-> p.Temperature,
                      TemperatureUnit |-> p.TemperatureUnit,
                      ShortForecast |-> p.ShortForecast,
                      Icon |-> mapIcon(p.Icon, p.IsDaytime),
                      PrecipChance |-> p.Precip]))

\* the hourly loop: for i, p := range hc.Properties.Periods { if i >= 5 { break } ... }
RECURSIVE HourlyLoop(_, _, _)
HourlyLoop(periods, i, acc) ==
    IF i > Len(periods) THEN acc
    ELSE IF i - 1 >= HourlyLimit THEN acc
    ELSE LET p == periods[i]
         IN  HourlyLoop(periods, i + 1,
                 Append(acc,
                     [Name |-> formatHourlyLabel(p.StartTime, p.Name),
                      Temperature |-> p.Temperature,
                      TemperatureUnit |-> p.TemperatureUnit,
                      ShortForecast |-> p.ShortForecast,
                      Icon |-> mapIcon(p.Icon, p.IsDaytime),
                      PrecipChance |-> p.Precip]))

\* the current conditions taken from one period
CurrentFrom(curr) ==
    [Temperature |-> curr.Temperature,
     TemperatureUnit |-> curr.TemperatureUnit,
     ShortForecast |-> curr.ShortForecast,
     Precipitation |-> curr.Precip,
     WindSpeed |-> curr.WindSpeed,
     WindDirection |-> curr.WindDirection,
     Icon |-> mapIcon(curr.Icon, curr.IsDaytime),
     HighTemp |-> 0, LowTemp |-> 0]

\* TodayHighLow that looks at the first period only
TodayHighLowFirstOnly(periods) ==
    LET first == periods[1].Temperature
    IN  [high |-> first, low |-> first]

\* today's high and low from the first two daily periods
TodayHighLow(periods) ==
    LET first == periods[1].Temperature
        high == IF Len(periods) > 1 /\ periods[2].Temperature > first
                THEN periods[2].Temperature ELSE first
        low == IF Len(periods) > 1 /\ periods[2].Temperature < first
               THEN periods[2].Temperature ELSE first
    IN  [high |-> high, low |-> low]

\* DailyLoop that stops once more than DailyLimit days are processed
RECURSIVE DailyLoopOffByOne(_, _, _, _)
DailyLoopOffByOne(periods, i, processedDays, acc) ==
    IF i > Len(periods) THEN acc
    ELSE LET p == periods[i]
             day == [Name |-> p.Name,
                     TemperatureUnit |-> p.TemperatureUnit,
                     Icon |-> mapIcon(p.Icon, p.IsDaytime),
                     ShortForecast |-> p.ShortForecast,
                     PrecipChance |-> p.Precip,
                     HighTemp |-> p.Temperature,
                     LowTemp |-> p.Temperature]
             paired == /\ p.IsDaytime
                       /\ i + 1 <= Len(periods)
                       /\ ~periods[i + 1].IsDaytime
             day2 == IF paired
                     THEN [day EXCEPT
                             !.LowTemp = periods[i + 1].Temperature,
                             !.PrecipChance =
                                 IF periods[i + 1].Precip > @
                                 THEN periods[i + 1].Precip ELSE @]
                     ELSE day
             next == IF paired THEN i + 2 ELSE i + 1
             acc2 == Append(acc, day2)
         IN  IF processedDays + 1 > DailyLimit THEN acc2
             ELSE DailyLoopOffByOne(periods, next, processedDays + 1, acc2)

\* DailyLoop that pairs a day with its night but does not consume the night
RECURSIVE DailyLoopNightKept(_, _, _, _)
DailyLoopNightKept(periods, i, processedDays, acc) ==
    IF i > Len(periods) THEN acc
    ELSE LET p == periods[i]
             day == [Name |-> p.Name,
                     TemperatureUnit |-> p.TemperatureUnit,
                     Icon |-> mapIcon(p.Icon, p.IsDaytime),
                     ShortForecast |-> p.ShortForecast,
                     PrecipChance |-> p.Precip,
                     HighTemp |-> p.Temperature,
                     LowTemp |-> p.Temperature]
             paired == /\ p.IsDaytime
                       /\ i + 1 <= Len(periods)
                       /\ ~periods[i + 1].IsDaytime
             day2 == IF paired
                     THEN [day EXCEPT
                             !.LowTemp = periods[i + 1].Temperature,
                             !.PrecipChance =
                                 IF periods[i + 1].Precip > @
                                 THEN periods[i + 1].Precip ELSE @]
                     ELSE day
             acc2 == Append(acc, day2)
         IN  IF processedDays + 1 >= DailyLimit THEN acc2
             ELSE DailyLoopNightKept(periods, i + 1, processedDays + 1, acc2)

\* DailyLoop that gives a pair the larger temperature as high and the smaller
\* as low
RECURSIVE DailyLoopWidened(_, _, _, _)
DailyLoopWidened(periods, i, processedDays, acc) ==
    IF i > Len(periods) THEN acc
    ELSE LET p == periods[i]
             day == [Name |-> p.Name,
                     TemperatureUnit |-> p.TemperatureUnit,
                     Icon |-> mapIcon(p.Icon, p.IsDaytime),
                     ShortForecast |-> p.ShortForecast,
                     PrecipChance |-> p.Precip,
                     HighTemp |-> p.Temperature,
                     LowTemp |-> p.Temperature]
             paired == /\ p.IsDaytime
                       /\ i + 1 <= Len(periods)
                       /\ ~periods[i + 1].IsDaytime
             day2 == IF paired
                     THEN [day EXCEPT
                             !.HighTemp = IF periods[i + 1].Temperature > @
                                          THEN periods[i + 1].Temperature ELSE @,
                             !.LowTemp = IF periods[i + 1].Temperature < @
                                         THEN periods[i + 1].Temperature ELSE @,
                             !.PrecipChance =
                                 IF periods[i + 1].Precip > @
                                 THEN periods[i + 1].Precip ELSE @]
                     ELSE day
             next == IF paired THEN i + 2 ELSE i + 1
             acc2 == Append(acc, day2)
         IN  IF processedDays + 1 >= DailyLimit THEN acc2
             ELSE DailyLoopWidened(periods, next, processedDays + 1, acc2)

\* the daily loop: for i < len(periods) { ... if processedDays >= 5 { break } }
RECURSIVE DailyLoop(_, _, _, _)
DailyLoop(periods, i, processedDays, acc) ==
    IF i > Len(periods) THEN acc
    ELSE LET p == periods[i]
             day == [Name |-> p.Name,
                     TemperatureUnit |-> p.TemperatureUnit,
                     Icon |-> mapIcon(p.Icon, p.IsDaytime),
                     ShortForecast |-> p.ShortForecast,
                     PrecipChance |-> p.Precip,
                     HighTemp |-> p.Temperature,
                     LowTemp |-> p.Temperature]
             paired == /\ p.IsDaytime
                       /\ i + 1 <= Len(periods)
                       /\ ~periods[i + 1].IsDaytime
             day2 == IF paired
                     THEN [day EXCEPT
                             !.LowTemp = periods[i + 1].Temperature,
                             !.PrecipChance =
                                 IF periods[i + 1].Precip > @
                                 THEN periods[i + 1].Precip ELSE @]
                     ELSE day
             next == IF paired THEN i + 2 ELSE i + 1
             acc2 == Append(acc, day2)
         IN  IF processedDays + 1 >= DailyLimit THEN acc2
             ELSE DailyLoop(periods, next, processedDays + 1, acc2)

\* the alerts loop: one Alert per feature, in order
AlertsOf(al) ==
    [i \in 1..Len(al.Features) |->
        [Event |-> al.Features[i].Event,
         Headline |-> al.Features[i].Headline,
         Description |-> al.Features[i].Description,
         Severity |-> al.Features[i].Severity,
         AreaDesc |-> al.Features[i].AreaDesc]]

\* transform that prefers the first daily period for the current conditions
transformDailyFirst(fc, hc, al, obs) ==
    LET hourly == IF hc # NilPtr THEN HourlyLoop(hc.Periods, 1, <<>>) ELSE <<>>
        cur1 == IF fc # NilPtr /\ Len(fc.Periods) > 0
                THEN CurrentFrom(fc.Periods[1])
                ELSE IF hc # NilPtr /\ Len(hc.Periods) > 0
                THEN CurrentFrom(hc.Periods[1])
                ELSE ZeroCurrent
        hasDaily == fc # NilPtr /\ Len(fc.Periods) > 0
        cur2 == IF hasDaily
                THEN [cur1 EXCEPT !.HighTemp = TodayHighLow(fc.Periods).high,
                                  !.LowTemp = TodayHighLow(fc.Periods).low]
                ELSE cur1
        forecast == IF hasDaily THEN DailyLoop(fc.Periods, 1, 0, <<>>) ELSE <<>>
        ot == observationTemperature(obs)
        cur3 == IF ot.ok
                THEN [cur2 EXCEPT !.Temperature = ot.temp,
                                  !.TemperatureUnit = ot.unit]
                ELSE cur2
    IN  [Current |-> cur3,
         Forecast |-> forecast,
         Hourly |-> hourly,
         Alerts |-> AlertsOf(al),
         CachedAt |-> now,
         ExpiresAt |-> now + SnapshotTTL,
         Location |-> ""]

\* transform whose observation override also sets the current high and low
transformObservationSetsHighLow(fc, hc, al, obs) ==
    LET hourly == IF hc # NilPtr THEN HourlyLoop(hc.Periods, 1, <<>>) ELSE <<>>
        cur1 == IF hc # NilPtr /\ Len(hc.Periods) > 0
                THEN CurrentFrom(hc.Periods[1])
                ELSE IF fc # NilPtr /\ Len(fc.Periods) > 0
                THEN CurrentFrom(fc.Periods[1])
                ELSE ZeroCurrent
        hasDaily == fc # NilPtr /\ Len(fc.Periods) > 0
        cur2 == IF hasDaily
                THEN [cur1 EXCEPT !.HighTemp = TodayHighLow(fc.Periods).high,
                                  !.LowTemp = TodayHighLow(fc.Periods).low]
                ELSE cur1
        forecast == IF hasDaily THEN DailyLoop(fc.Periods, 1, 0, <<>>) ELSE <<>>
        ot == observationTemperature(obs)
        cur3 == IF ot.ok
                THEN [cur2 EXCEPT !.Temperature = ot.temp,
                                  !.TemperatureUnit = ot.unit,
                                  !.HighTemp = ot.temp,
                                  !.LowTemp = ot.temp]
                ELSE cur2
    IN  [Current |-> cur3,
         Forecast |-> forecast,
         Hourly |-> hourly,
         Alerts |-> AlertsOf(al),
         CachedAt |-> now,
         ExpiresAt |-> now + SnapshotTTL,
         Location |-> ""]

transform(fc, hc, al, obs) ==
    LET hourly == IF hc # NilPtr THEN HourlyLoop(hc.Periods, 1, <<>>) ELSE <<>>
        cur1 == IF hc # NilPtr /\ Len(hc.Periods) > 0
                THEN CurrentFrom(hc.Periods[1])
                ELSE IF fc # NilPtr /\ Len(fc.Periods) > 0
                THEN CurrentFrom(fc.Periods[1])
                ELSE ZeroCurrent
        hasDaily == fc # NilPtr /\ Len(fc.Periods) > 0
        cur2 == IF hasDaily
                THEN [cur1 EXCEPT !.HighTemp = TodayHighLow(fc.Periods).high,
                                  !.LowTemp = TodayHighLow(fc.Periods).low]
                ELSE cur1
        forecast == IF hasDaily THEN DailyLoop(fc.Periods, 1, 0, <<>>) ELSE <<>>
        ot == observationTemperature(obs)
        cur3 == IF ot.ok
                THEN [cur2 EXCEPT !.Temperature = ot.temp,
                                  !.TemperatureUnit = ot.unit]
                ELSE cur2
    IN  [Current |-> cur3,
         Forecast |-> forecast,
         Hourly |-> hourly,
         Alerts |-> AlertsOf(al),
         CachedAt |-> now,
         ExpiresAt |-> now + SnapshotTTL,
         Location |-> ""]

(***************************************************************************)
(* Coordinates.  A float64 coordinate is a sign and a magnitude in         *)
(* thousandths of a degree; the sign is kept apart because Go keeps it on  *)
(* a zero (math.Round(-0.1) is -0, printed "-0.00").  Inputs are taken     *)
(* with a last digit other than 5, where the binary float and the decimal  *)
(* text round alike.                                                       *)
(***************************************************************************)
Coord(neg, mag) == [neg |-> neg, mag |-> mag]

\* math.Round(x*precision) / precision with precision = 100.0
Round2(x) == [neg |-> x.neg, mag |-> RoundDiv(x.mag, 10) * 10]

\* two decimal digits
TwoDigits(n) == IF n < 10 THEN "0" \o ToString(n) ELSE ToString(n)

\* fmt.Sprintf("%.2f", x)
Format2f(x) ==
    LET h == RoundDiv(x.mag, 10)
    IN  (IF x.neg THEN "-" ELSE "") \o ToString(h \div 100) \o "."
            \o TwoDigits(h % 100)

\* key := fmt.Sprintf("%.2f,%.2f", lat, lon)
CacheKey(lat, lon) == Format2f(lat) \o "," \o Format2f(lon)

(***************************************************************************)
(* The Cache Store.  The table weather_cache is a set of rows              *)
(* [id, data, expires_at, created_at]; now is CURRENT_TIMESTAMP.           *)
(***************************************************************************)
\* the time zones of the server: one with a constant offset, and one whose
\* clocks go back one hour, from -07:00 to -08:00, at FallBackTick
Zones == {"UTC", "America/Los_Angeles"}

\* the tick at which the clocks of America/Los_Angeles go back: tick 0 is one
\* tick before 01:00 and the clocks go back at 02:00
FallBackTick == TicksPerHour + 1

OffsetUTC == <<"+", "0", "0", ":", "0", "0">>

OffsetPDT == <<"-", "0", "7", ":", "0", "0">>

OffsetPST == <<"-", "0", "8", ":", "0", "0">>

\* the characters of an offset in the order of their bytes
ByteOrder == <<"+", "-", "0", "1", "2", "3", "4", "5", "6", "7", "8", "9", ":">>

ByteRank(c) == CHOOSE i \in DOMAIN ByteOrder : ByteOrder[i] = c

\* a > b for two texts, compared byte by byte as SQLite compares TEXT values
RECURSIVE TextGreater(_, _)
TextGreater(a, b) ==
    IF a = <<>> THEN FALSE
    ELSE IF b = <<>> THEN TRUE
    ELSE IF Head(a) # Head(b) THEN ByteRank(Head(a)) > ByteRank(Head(b))
    ELSE TextGreater(Tail(a), Tail(b))

\* the text go-sqlite3 binds for the instant t, a time.Time in the server's
\* zone, in the layout "2006-01-02 15:04:05.999999999-07:00": the wall clock,
\* in ticks from the wall clock of tick 0, and the offset in effect at t
TimeText(t, zone) ==
    IF zone = "UTC" THEN [wall |-> t, offset |-> OffsetUTC]
    ELSE IF t < FallBackTick THEN [wall |-> t, offset |-> OffsetPDT]
    ELSE [wall |-> t - TicksPerHour, offset |-> OffsetPST]

\* a > b for two such texts: the wall clock first, then the offset
TimeTextGreater(a, b) ==
    \/ a.wall > b.wall
    \/ a.wall = b.wall /\ TextGreater(a.offset, b.offset)

\* SELECT data, expires_at, created_at FROM weather_cache
\*   WHERE id = ? AND expires_at > ?          (the rows QueryRow may scan)
\* expires_at and the parameter time.Now() are both stored as texts, which
\* SQLite compares as texts
SelectValid(key, t) ==
    {row \in cache :
        /\ row.id = key
        /\ TimeTextGreater(TimeText(row.expires_at, env.zone), TimeText(t, env.zone))}

\* GetCachedWeather: the (entry, err) pairs it may return; dbFail is a
\* storage failure of the query
GetCachedWeather(lat, lon, dbFail) ==
    LET key == CacheKey(lat, lon)
    IN  IF dbFail THEN {[entry |-> NilPtr, err |-> TRUE]}
        ELSE IF SelectValid(key, now) = {}
        THEN {[entry |-> NilPtr, err |-> FALSE]}
        ELSE {[entry |-> [Data |-> row.data,
                          ExpiresAt |-> row.expires_at,
                          CreatedAt |-> row.created_at],
               err |-> FALSE] : row \in SelectValid(key, now)}

\* SetCachedWeather whose conflict clause does not refresh created_at
SetCachedWeatherKeepCreated(lat, lon, data, duration, dbFail) ==
    LET key == CacheKey(lat, lon)
        expiresAt == now + duration
        conflict == {row \in cache : row.id = key}
    IN  IF dbFail THEN cache
        ELSE IF conflict = {}
        THEN cache \cup {[id |-> key, data |-> data,
                          expires_at |-> expiresAt, created_at |-> now]}
        ELSE (cache \ conflict) \cup
             {[row EXCEPT !.data = data, !.expires_at = expiresAt] : row \in conflict}

\* SetCachedWeather whose conflict clause refreshes the times but keeps the
\* stored data
SetCachedWeatherKeepData(lat, lon, data, duration, dbFail) ==
    LET key == CacheKey(lat, lon)
        expiresAt == now + duration
        conflict == {row \in cache : row.id = key}
    IN  IF dbFail THEN cache
        ELSE IF conflict = {}
        THEN cache \cup {[id |-> key, data |-> data,
                          expires_at |-> expiresAt, created_at |-> now]}
        ELSE (cache \ conflict) \cup
             {[row EXCEPT !.expires_at = expiresAt, !.created_at = now] :
                 row \in conflict}

\* SetCachedWeather: the table after
\*   INSERT INTO weather_cache (id, data, expires_at) VALUES (?, ?, ?)
\*   ON CONFLICT(id) DO UPDATE SET data = excluded.data,
\*     expires_at = excluded.expires_at, created_at = CURRENT_TIMESTAMP
\* dbFail is a storage failure of the statement, which then changes nothing
SetCachedWeather(lat, lon, data, duration, dbFail) ==
    LET key == CacheKey(lat, lon)
        expiresAt == now + duration
        conflict == {row \in cache : row.id = key}
    IN  IF dbFail THEN cache
        ELSE IF conflict = {}
        THEN cache \cup {[id |-> key, data |-> data,
                          expires_at |-> expiresAt, created_at |-> now]}
        ELSE (cache \ conflict) \cup
             {[row EXCEPT !.data = data, !.expires_at = expiresAt,
                          !.created_at = now] : row \in conflict}

(***************************************************************************)
(* JSON.  The serialized snapshot is [valid, doc]: doc has one field per   *)
(* json tag of WeatherData, and "location" only when it is non-empty       *)
(* (omitempty).  A text that json.Unmarshal rejects has valid = FALSE.     *)
(***************************************************************************)
\* json.Marshal(wd)
Marshal(wd) ==
    LET base == [current |-> wd.Current, forecast |-> wd.Forecast,
                 hourly |-> wd.Hourly, alerts |-> wd.Alerts,
                 cached_at |-> wd.CachedAt, expires_at |-> wd.ExpiresAt]
    IN  [valid |-> TRUE,
         doc |-> IF wd.Location = "" THEN base
                 ELSE [f \in DOMAIN base \cup {"location"} |->
                          IF f = "location" THEN wd.Location ELSE base[f]]]

\* the zero value of WeatherData, with times at the zero time
ZeroWeatherData ==
    [Current |-> ZeroCurrent, Forecast |-> <<>>, Hourly |-> <<>>,
     Alerts |-> <<>>, CachedAt |-> 0, ExpiresAt |-> 0, Location |-> ""]

\* Unmarshal that never reads the location
UnmarshalNoLocation(data) ==
    IF ~data.valid THEN [wd |-> ZeroWeatherData, ok |-> FALSE]
    ELSE [wd |-> [Current |-> data.doc.current,
                  Forecast |-> data.doc.forecast,
                  Hourly |-> data.doc.hourly,
                  Alerts |-> data.doc.alerts,
                  CachedAt |-> data.doc.cached_at,
                  ExpiresAt |-> data.doc.expires_at,
                  Location |-> ""],
          ok |-> TRUE]

\* json.Unmarshal([]byte(cached.Data), &wd): (wd, ok)
Unmarshal(data) ==
    IF ~data.valid THEN [wd |-> ZeroWeatherData, ok |-> FALSE]
    ELSE [wd |-> [Current |-> data.doc.current,
                  Forecast |-> data.doc.forecast,
                  Hourly |-> data.doc.hourly,
                  Alerts |-> data.doc.alerts,
                  CachedAt |-> data.doc.cached_at,
                  ExpiresAt |-> data.doc.expires_at,
                  Location |-> IF "location" \in DOMAIN data.doc
                               THEN data.doc.location ELSE ""],
          ok |-> TRUE]

(***************************************************************************)
(* What the upstream services may answer.                                  *)
(***************************************************************************)
IconSkc == <<"/", "d", "a", "y", "/", "s", "k", "c">>
IconRain == <<"/", "n", "i", "g", "h", "t", "/", "r", "a", "i", "n">>
IconBkn == <<"/", "d", "a", "y", "/", "b", "k", "n">>
UnitWmoDegC == <<"w", "m", "o", "U", "n", "i", "t", ":", "d", "e", "g", "C">>

Period(name, start, isDaytime, temperature, precip, icon, short) ==
    [Name |-> name, StartTime |-> start, IsDaytime |-> isDaytime,
     Temperature |-> temperature, TemperatureUnit |-> StrF,
     Precip |-> precip, WindSpeed |-> "5 mph", WindDirection |-> "NW",
     Icon |-> icon, ShortForecast |-> short]

DailySample ==
    [Periods |-> <<Period("Today", StartEmpty, TRUE, 70, 20, IconSkc, "Sunny"),
                   Period("Tonight", StartEmpty, FALSE, 50, 40, IconRain, "Rain"),
                   Period("Tuesday", StartEmpty, TRUE, 72, 0, IconBkn, "Cloudy")>>]

HourlySample ==
    [Periods |-> <<Period("h1", StartAt(15, -8), TRUE, 67, 10, IconBkn, "Cloudy"),
                   Period("h2", StartEmpty, TRUE, 66, 30, IconRain, "Rain")>>]

ObservationSample == [Value |-> ValNum(200), UnitCode |-> UnitWmoDegC]

AlertsSample ==
    [Features |-> <<[Event |-> "Flood Watch", Headline |-> "Flood Watch issued",
                     Description |-> "Flooding possible", Severity |-> "Severe",
                     AreaDesc |-> "Kings"]>>]

\* al = &AlertsResponse{}
EmptyAlerts == [Features |-> <<>>]

\* the point metadata: the forecast URL, and the hourly and stations URLs,
\* each of which may be ""
PointSamples ==
    {[Forecast |-> "forecast-url", ForecastHourly |-> h, ObservationStations |-> s] :
        h \in {"", "hourly-url"}, s \in {"", "stations-url"}}

\* the ids of the features of a stations response
StationFeatureSamples == {<<>>, <<"", "KNYC", "KJFK">>}

LocationSample == "Brooklyn, New York"

\* the coordinates callers send: the first two round to the same key
CoordA == <<Coord(FALSE, 40001), Coord(TRUE, 74004)>>
CoordB == <<Coord(FALSE, 40004), Coord(TRUE, 74001)>>
CoordC == <<Coord(FALSE, 40006), Coord(TRUE, 74004)>>
CoordSamples == {CoordA, CoordB, CoordC}

(***************************************************************************)
(* The Aggregation Service.  Each request is one execution of GetWeather;  *)
(* a step is one blocking call of it on the Cache Store or on an upstream  *)
(* service, together with the local computation up to the next call.       *)
(***************************************************************************)
\* the requests: two handlers that may run at once
Reqs == {1, 2}

NoCoord == Coord(FALSE, 0)

IdleReq ==
    [pc |-> "idle", lat |-> NoCoord, lon |-> NoCoord,
     rLat |-> NoCoord, rLon |-> NoCoord,
     cached |-> NilPtr, lookupErr |-> FALSE,
     pt |-> NilPtr, hc |-> NilPtr, stations |-> <<>>, obs |-> NilPtr,
     fc |-> NilPtr, wd |-> NilPtr, storeErr |-> FALSE,
     ret |-> [wd |-> NilPtr, err |-> ""],
     calls |-> <<>>]

\* one upstream call in a request's log: the position in fetchFreshWeather
\* that made it, the client function, its arguments and whether it succeeded
Call(site, op, url, lat, lon, ok) ==
    [site |-> site, op |-> op, url |-> url, lat |-> lat, lon |-> lon, ok |-> ok]

\* a failure or a degraded answer may be given
CanFail == ~env.limited \/ env.faults > 0

\* point metadata without an hourly or a stations URL is a degraded answer
DegradedPoint(pt) == pt.ForecastHourly = "" \/ pt.ObservationStations = ""

\* the coordinates request r may carry: the first caller's are fixed, a later
\* caller sends the same ones, others of the same key, or others of another key
CoordsOf(r) == IF r = 1 THEN {CoordA} ELSE CoordSamples

\* env after a step in which failed tells whether a failure was injected
Spend(failed) ==
    IF failed /\ env.limited THEN [env EXCEPT !.faults = @ - 1] ELSE env

\* NextStep with the observation block placed before the hourly block
NextStepObservationFirst(pc, pt, ok, stations) ==
    LET hourlyOrForecast == IF pt.ForecastHourly # "" THEN "hourly" ELSE "forecast"
    IN  IF pc = "point"
        THEN (IF ~ok THEN "done"
              ELSE IF pt.ObservationStations # "" THEN "stations"
              ELSE hourlyOrForecast)
        ELSE IF pc = "stations"
        THEN (IF ok /\ Len(stations) > 0 THEN "latest" ELSE hourlyOrForecast)
        ELSE IF pc = "latest" THEN hourlyOrForecast
        ELSE IF pc = "hourly" THEN "forecast"
        ELSE IF pc = "forecast" THEN (IF ~ok THEN "done" ELSE "alerts")
        ELSE IF pc = "alerts" THEN "geocode"
        ELSE IF pc = "geocode" THEN "store"
        ELSE "done"

\* NextStep that calls the hourly forecast again after it failed
NextStepRetryHourly(pc, pt, ok, stations) ==
    IF pc = "point"
    THEN (IF ~ok THEN "done"
          ELSE IF pt.ForecastHourly # "" THEN "hourly"
          ELSE IF pt.ObservationStations # "" THEN "stations"
          ELSE "forecast")
    ELSE IF pc = "hourly"
    THEN (IF ~ok THEN "hourly"
          ELSE IF pt.ObservationStations # "" THEN "stations" ELSE "forecast")
    ELSE IF pc = "stations"
    THEN (IF ok /\ Len(stations) > 0 THEN "latest" ELSE "forecast")
    ELSE IF pc = "latest" THEN "forecast"
    ELSE IF pc = "forecast" THEN (IF ~ok THEN "done" ELSE "alerts")
    ELSE IF pc = "alerts" THEN "geocode"
    ELSE IF pc = "geocode" THEN "store"
    ELSE "done"

\* The control flow of fetchFreshWeather and of step 4 of GetWeather: the
\* position after the call made at position pc, given the point metadata,
\* whether the call succeeded and the station list.
NextStep(pc, pt, ok, stations) ==
    IF pc = "point"
    THEN (IF ~ok THEN "done"
          ELSE IF pt.ForecastHourly # "" THEN "hourly"
          ELSE IF pt.ObservationStations # "" THEN "stations"
          ELSE "forecast")
    ELSE IF pc = "hourly"
    THEN (IF pt.ObservationStations # "" THEN "stations" ELSE "forecast")
    ELSE IF pc = "stations"
    THEN (IF ok /\ Len(stations) > 0 THEN "latest" ELSE "forecast")
    ELSE IF pc = "latest" THEN "forecast"
    ELSE IF pc = "forecast" THEN (IF ~ok THEN "done" ELSE "alerts")
    ELSE IF pc = "alerts" THEN "geocode"
    ELSE IF pc = "geocode" THEN "store"
    ELSE "done"

\* GetWeather that returns the storage error of the cache lookup to its caller
GetWeatherAbortOnCacheError(r, lat, lon, dbFail) ==
    /\ req[r].pc = "idle"
    /\ \A q \in Reqs : q < r => req[q].pc # "idle"
    /\ env.starts > 0
    /\ dbFail => CanFail
    /\ LET rLat == Round2(lat)
           rLon == Round2(lon)
       IN  \E got \in GetCachedWeather(rLat, rLon, dbFail) :
             LET um == IF got.entry # NilPtr THEN Unmarshal(got.entry.Data)
                       ELSE [wd |-> ZeroWeatherData, ok |-> FALSE]
                 base == [req[r] EXCEPT !.lat = lat, !.lon = lon,
                                        !.rLat = rLat, !.rLon = rLon,
                                        !.cached = got.entry,
                                        !.lookupErr = got.err]
             IN  req' = [req EXCEPT ![r] =
                    IF got.err
                    THEN [base EXCEPT !.pc = "done",
                                      !.ret = [wd |-> NilPtr, err |-> "cache error"]]
                    ELSE IF got.entry # NilPtr /\ um.ok
                    THEN [base EXCEPT
                            !.pc = "done",
                            !.ret = [wd |-> [um.wd EXCEPT
                                               !.CachedAt = got.entry.CreatedAt,
                                               !.ExpiresAt = got.entry.ExpiresAt],
                                     err |-> ""]]
                    ELSE [base EXCEPT !.pc = "point"]]
    /\ env' = [Spend(dbFail) EXCEPT !.starts = @ - 1]
    /\ UNCHANGED <<now, cache, arg, res>>

\* GetWeather that returns the decoding error of a cached entry to its caller
GetWeatherFailsOnCorruptEntry(r, lat, lon, dbFail) ==
    /\ req[r].pc = "idle"
    /\ \A q \in Reqs : q < r => req[q].pc # "idle"
    /\ env.starts > 0
    /\ dbFail => CanFail
    /\ LET rLat == Round2(lat)
           rLon == Round2(lon)
       IN  \E got \in GetCachedWeather(rLat, rLon, dbFail) :
             LET um == IF got.entry # NilPtr THEN Unmarshal(got.entry.Data)
                       ELSE [wd |-> ZeroWeatherData, ok |-> FALSE]
                 base == [req[r] EXCEPT !.lat = lat, !.lon = lon,
                                        !.rLat = rLat, !.rLon = rLon,
                                        !.cached = got.entry,
                                        !.lookupErr = got.err]
             IN  req' = [req EXCEPT ![r] =
                    IF got.entry # NilPtr /\ um.ok
                    THEN [base EXCEPT
                            !.pc = "done",
                            !.ret = [wd |-> [um.wd EXCEPT
                                               !.CachedAt = got.entry.CreatedAt,
                                               !.ExpiresAt = got.entry.ExpiresAt],
                                     err |-> ""]]
                    ELSE IF got.entry # NilPtr
                    THEN [base EXCEPT !.pc = "done",
                                      !.ret = [wd |-> NilPtr,
                                               err |-> "cache unmarshal error"]]
                    ELSE [base EXCEPT !.pc = "point"]]
    /\ env' = [Spend(dbFail) EXCEPT !.starts = @ - 1]
    /\ UNCHANGED <<now, cache, arg, res>>

\* GetWeather up to its first return or to the fresh fetch: rounding, the
\* cache lookup and the decoding of a hit
GetWeather(r, lat, lon, dbFail) ==
    /\ req[r].pc = "idle"
    /\ \A q \in Reqs : q < r => req[q].pc # "idle"
    /\ env.starts > 0
    /\ dbFail => CanFail
    /\ LET rLat == Round2(lat)
           rLon == Round2(lon)
       IN  \E got \in GetCachedWeather(rLat, rLon, dbFail) :
             LET um == IF got.entry # NilPtr THEN Unmarshal(got.entry.Data)
                       ELSE [wd |-> ZeroWeatherData, ok |-> FALSE]
                 base == [req[r] EXCEPT !.lat = lat, !.lon = lon,
                                        !.rLat = rLat, !.rLon = rLon,
                                        !.cached = got.entry,
                                        !.lookupErr = got.err]
             IN  req' = [req EXCEPT ![r] =
                    IF got.entry # NilPtr /\ um.ok
                    THEN [base EXCEPT
                            !.pc = "done",
                            !.ret = [wd |-> [um.wd EXCEPT
                                               !.CachedAt = got.entry.CreatedAt,
                                               !.ExpiresAt = got.entry.ExpiresAt],
                                     err |-> ""]]
                    ELSE [base EXCEPT !.pc = "point"]]
    /\ env' = [Spend(dbFail) EXCEPT !.starts = @ - 1]
    /\ UNCHANGED <<now, cache, arg, res>>

\* FetchPointMetadata that drops the entry of the key when the call fails
FetchPointMetadataEvictsOnFailure(r, ok, pt) ==
    /\ req[r].pc = "point"
    /\ (~ok \/ DegradedPoint(pt)) => CanFail
    /\ req' = [req EXCEPT ![r] =
          LET logged == [@ EXCEPT !.calls = Append(@,
                            Call("point", "GetPointMetadata", "", req[r].rLat, req[r].rLon, ok))]
          IN  IF ~ok
              THEN [logged EXCEPT !.pc = NextStep("point", pt, ok, <<>>),
                       !.ret = [wd |-> NilPtr, err |-> "failed to get point metadata"]]
              ELSE [logged EXCEPT !.pc = NextStep("point", pt, ok, <<>>), !.pt = pt]]
    /\ env' = Spend(~ok \/ DegradedPoint(pt))
    /\ cache' = IF ok THEN cache
                ELSE {row \in cache : row.id # CacheKey(req[r].rLat, req[r].rLon)}
    /\ UNCHANGED <<now, arg, res>>

\* FetchPointMetadata that passes the coordinates as the caller gave them
FetchPointMetadataRawCoords(r, ok, pt) ==
    /\ req[r].pc = "point"
    /\ (~ok \/ DegradedPoint(pt)) => CanFail
    /\ req' = [req EXCEPT ![r] =
          LET logged == [@ EXCEPT !.calls = Append(@,
                            Call("point", "GetPointMetadata", "", req[r].lat, req[r].lon, ok))]
          IN  IF ~ok
              THEN [logged EXCEPT !.pc = NextStep("point", pt, ok, <<>>),
                       !.ret = [wd |-> NilPtr, err |-> "failed to get point metadata"]]
              ELSE [logged EXCEPT !.pc = NextStep("point", pt, ok, <<>>), !.pt = pt]]
    /\ env' = Spend(~ok \/ DegradedPoint(pt))
    /\ UNCHANGED <<now, cache, arg, res>>

\* A. pt, err := s.client.GetPointMetadata(lat, lon)
FetchPointMetadata(r, ok, pt) ==
    /\ req[r].pc = "point"
    /\ (~ok \/ DegradedPoint(pt)) => CanFail
    /\ req' = [req EXCEPT ![r] =
          LET logged == [@ EXCEPT !.calls = Append(@,
                            Call("point", "GetPointMetadata", "", req[r].rLat, req[r].rLon, ok))]
          IN  IF ~ok
              THEN [logged EXCEPT !.pc = NextStep("point", pt, ok, <<>>),
                       !.ret = [wd |-> NilPtr, err |-> "failed to get point metadata"]]
              ELSE [logged EXCEPT !.pc = NextStep("point", pt, ok, <<>>), !.pt = pt]]
    /\ env' = Spend(~ok \/ DegradedPoint(pt))
    /\ UNCHANGED <<now, cache, arg, res>>

\* FetchHourly that treats a failed hourly forecast like a failed daily one
FetchHourlyFatal(r, ok) ==
    /\ req[r].pc = "hourly"
    /\ ~ok => CanFail
    /\ req' = [req EXCEPT ![r] =
          LET logged == [@ EXCEPT !.calls = Append(@,
                            Call("hourly", "GetForecast", req[r].pt.ForecastHourly,
                                 NoCoord, NoCoord, ok))]
          IN  IF ~ok
              THEN [logged EXCEPT !.pc = "done",
                       !.ret = [wd |-> NilPtr, err |-> "failed to get hourly forecast"]]
              ELSE [logged EXCEPT !.hc = HourlySample,
                                  !.pc = NextStep("hourly", req[r].pt, ok, <<>>)]]
    /\ env' = Spend(~ok)
    /\ UNCHANGED <<now, cache, arg, res>>

\* A.1 hourly, err := s.client.GetForecast(pt.Properties.ForecastHourly)
FetchHourly(r, ok) ==
    /\ req[r].pc = "hourly"
    /\ ~ok => CanFail
    /\ req' = [req EXCEPT ![r] =
          [@ EXCEPT !.calls = Append(@,
                        Call("hourly", "GetForecast", req[r].pt.ForecastHourly, NoCoord, NoCoord, ok)),
                    !.hc = IF ok THEN HourlySample ELSE NilPtr,
                    !.pc = NextStep("hourly", req[r].pt, ok, <<>>)]]
    /\ env' = Spend(~ok)
    /\ UNCHANGED <<now, cache, arg, res>>

\* GetObservationStations keeps the non-empty feature ids, in order
StationsOf(features) == SelectSeq(features, LAMBDA id : id # "")

\* A.2 stations, err := s.client.GetObservationStations(pt.Properties.ObservationStations)
FetchStations(r, ok, features) ==
    /\ req[r].pc = "stations"
    /\ (~ok \/ StationsOf(features) = <<>>) => CanFail
    /\ req' = [req EXCEPT ![r] =
          [@ EXCEPT !.calls = Append(@,
                        Call("stations", "GetObservationStations",
                             req[r].pt.ObservationStations, NoCoord, NoCoord, ok)),
                    !.stations = IF ok THEN StationsOf(features) ELSE <<>>,
                    !.pc = NextStep("stations", req[r].pt, ok, StationsOf(features))]]
    /\ env' = Spend(~ok \/ StationsOf(features) = <<>>)
    /\ UNCHANGED <<now, cache, arg, res>>

\* FetchLatestObservation that asks the last station of the list
FetchLatestObservationLastStation(r, ok) ==
    /\ req[r].pc = "latest"
    /\ ~ok => CanFail
    /\ req' = [req EXCEPT ![r] =
          [@ EXCEPT !.calls = Append(@,
                        Call("latest", "GetLatestObservation",
                             req[r].stations[Len(req[r].stations)],
                             NoCoord, NoCoord, ok)),
                    !.obs = IF ok THEN ObservationSample ELSE NilPtr,
                    !.pc = NextStep("latest", req[r].pt, ok, req[r].stations)]]
    /\ env' = Spend(~ok)
    /\ UNCHANGED <<now, cache, arg, res>>

\* A.2 latest, err := s.client.GetLatestObservation(stations[0])
FetchLatestObservation(r, ok) ==
    /\ req[r].pc = "latest"
    /\ ~ok => CanFail
    /\ req' = [req EXCEPT ![r] =
          [@ EXCEPT !.calls = Append(@,
                        Call("latest", "GetLatestObservation", req[r].stations[1],
                             NoCoord, NoCoord, ok)),
                    !.obs = IF ok THEN ObservationSample ELSE NilPtr,
                    !.pc = NextStep("latest", req[r].pt, ok, req[r].stations)]]
    /\ env' = Spend(~ok)
    /\ UNCHANGED <<now, cache, arg, res>>

\* FetchForecast that treats a failed daily forecast as absent
FetchForecastBestEffort(r, ok) ==
    /\ req[r].pc = "forecast"
    /\ ~ok => CanFail
    /\ req' = [req EXCEPT ![r] =
          [@ EXCEPT !.calls = Append(@,
                        Call("forecast", "GetForecast", req[r].pt.Forecast,
                             NoCoord, NoCoord, ok)),
                    !.fc = IF ok THEN DailySample ELSE NilPtr,
                    !.pc = "alerts"]]
    /\ env' = Spend(~ok)
    /\ UNCHANGED <<now, cache, arg, res>>

\* B. fc, err := s.client.GetForecast(pt.Properties.Forecast)
FetchForecast(r, ok) ==
    /\ req[r].pc = "forecast"
    /\ ~ok => CanFail
    /\ req' = [req EXCEPT ![r] =
          LET logged == [@ EXCEPT !.calls = Append(@,
                            Call("forecast", "GetForecast", req[r].pt.Forecast,
                                 NoCoord, NoCoord, ok))]
          IN  IF ~ok
              THEN [logged EXCEPT !.pc = NextStep("forecast", req[r].pt, ok, <<>>),
                       !.ret = [wd |-> NilPtr, err |-> "failed to get forecast"]]
              ELSE [logged EXCEPT !.pc = NextStep("forecast", req[r].pt, ok, <<>>),
                                  !.fc = DailySample]]
    /\ env' = Spend(~ok)
    /\ UNCHANGED <<now, cache, arg, res>>

\* C. al, err := s.client.GetAlerts(lat, lon), then D. transform(fc, hc, al, obs)
FetchAlerts(r, ok) ==
    /\ req[r].pc = "alerts"
    /\ ~ok => CanFail
    /\ req' = [req EXCEPT ![r] =
          LET al == IF ok THEN AlertsSample ELSE EmptyAlerts
          IN  [@ EXCEPT !.calls = Append(@,
                            Call("alerts", "GetAlerts", "", req[r].rLat, req[r].rLon, ok)),
                        !.wd = transform(req[r].fc, req[r].hc, al, req[r].obs),
                        !.pc = NextStep("alerts", req[r].pt, ok, <<>>)]]
    /\ env' = Spend(~ok)
    /\ UNCHANGED <<now, cache, arg, res>>

\* loc, err := s.client.ReverseGeocode(lat, lon), the return of
\* fetchFreshWeather and json.Marshal(wd)
FetchReverseGeocode(r, ok) ==
    /\ req[r].pc = "geocode"
    /\ ~ok => CanFail
    /\ req' = [req EXCEPT ![r] =
          [@ EXCEPT !.calls = Append(@,
                        Call("geocode", "ReverseGeocode", "", req[r].rLat, req[r].rLon, ok)),
                    !.wd = IF ok THEN [@ EXCEPT !.Location = LocationSample] ELSE @,
                    !.pc = NextStep("geocode", req[r].pt, ok, <<>>)]]
    /\ env' = Spend(~ok)
    /\ UNCHANGED <<now, cache, arg, res>>

\* StoreAndReturn that returns the error of a failed cache write
StoreAndReturnSurfaceError(r, dbFail) ==
    /\ req[r].pc = "store"
    /\ dbFail => CanFail
    /\ cache' = SetCachedWeather(req[r].rLat, req[r].rLon, Marshal(req[r].wd),
                                 CacheTTL, dbFail)
    /\ req' = [req EXCEPT ![r] =
          [@ EXCEPT !.storeErr = dbFail, !.pc = "done",
                    !.ret = IF dbFail
                            THEN [wd |-> NilPtr, err |-> "failed to update cache"]
                            ELSE [wd |-> req[r].wd, err |-> ""]]]
    /\ env' = Spend(dbFail)
    /\ UNCHANGED <<now, arg, res>>

\* StoreAndReturn that keeps a snapshot out of the cache when one of the
\* calls behind it failed
StoreAndReturnSkipsDegraded(r, dbFail) ==
    /\ req[r].pc = "store"
    /\ dbFail => CanFail
    /\ cache' = IF \E i \in DOMAIN req[r].calls : ~req[r].calls[i].ok
                THEN cache
                ELSE SetCachedWeather(req[r].rLat, req[r].rLon, Marshal(req[r].wd),
                                      CacheTTL, dbFail)
    /\ req' = [req EXCEPT ![r] =
          [@ EXCEPT !.storeErr = dbFail,
                    !.pc = NextStep("store", req[r].pt, ~dbFail, <<>>),
                    !.ret = [wd |-> req[r].wd, err |-> ""]]]
    /\ env' = Spend(dbFail)
    /\ UNCHANGED <<now, arg, res>>

\* 4. s.db.SetCachedWeather(rLat, rLon, string(data), 1*time.Hour); return wd, nil
StoreAndReturn(r, dbFail) ==
    /\ req[r].pc = "store"
    /\ dbFail => CanFail
    /\ cache' = SetCachedWeather(req[r].rLat, req[r].rLon, Marshal(req[r].wd),
                                 CacheTTL, dbFail)
    /\ req' = [req EXCEPT ![r] =
          [@ EXCEPT !.storeErr = dbFail,
                    !.pc = NextStep("store", req[r].pt, ~dbFail, <<>>),
                    !.ret = [wd |-> req[r].wd, err |-> ""]]]
    /\ env' = Spend(dbFail)
    /\ UNCHANGED <<now, arg, res>>

\* the clock advances
Tick ==
    /\ now < MaxTime
    /\ now' = now + 1
    /\ UNCHANGED <<cache, req, env, arg, res>>

NoCall == [op |-> "none"]

\* the server after NewService, in one of the time zones given
InitService(starts, limited, zones) ==
    /\ now = 0
    /\ cache = {}
    /\ req = [r \in Reqs |-> IdleReq]
    /\ \E zone \in zones :
           env = [starts |-> starts, limited |-> limited, faults |-> MaxFaults,
                  zone |-> zone]
    /\ arg = NoCall
    /\ res = NoCall

\* two requests that may overlap, with at most MaxFaults failures, on a
\* server whose zone has a constant offset
Init == InitService(2, TRUE, {"UTC"})

\* one request, with any failures, in either zone
InitOne == InitService(1, FALSE, Zones)

Next ==
    \/ \E r \in Reqs : \E c \in CoordsOf(r), dbFail \in BOOLEAN :
           GetWeather(r, c[1], c[2], dbFail)
    \/ \E r \in Reqs, ok \in BOOLEAN, pt \in PointSamples :
           FetchPointMetadata(r, ok, pt)
    \/ \E r \in Reqs, ok \in BOOLEAN : FetchHourly(r, ok)
    \/ \E r \in Reqs, ok \in BOOLEAN, f \in StationFeatureSamples :
           FetchStations(r, ok, f)
    \/ \E r \in Reqs, ok \in BOOLEAN : FetchLatestObservation(r, ok)
    \/ \E r \in Reqs, ok \in BOOLEAN : FetchForecast(r, ok)
    \/ \E r \in Reqs, ok \in BOOLEAN : FetchAlerts(r, ok)
    \/ \E r \in Reqs, ok \in BOOLEAN : FetchReverseGeocode(r, ok)
    \/ \E r \in Reqs, dbFail \in BOOLEAN : StoreAndReturn(r, dbFail)
    \/ Tick

Spec == Init /\ [][Next]_vars

SpecOne == InitOne /\ [][Next]_vars

(***************************************************************************)
(* The Cache Store on its own: GetCachedWeather and SetCachedWeather       *)
(* called directly, in any order, while the clock advances.                *)
(***************************************************************************)
\* the (lat, lon) pairs the service passes to the store: rounded ones
StoreCoords == {<<Round2(c[1]), Round2(c[2])>> : c \in CoordSamples}

\* two serialized snapshots
StoreData ==
    {Marshal(ZeroWeatherData),
     Marshal([ZeroWeatherData EXCEPT !.Location = LocationSample])}

DbSet(lat, lon, data, dbFail) ==
    /\ cache' = SetCachedWeather(lat, lon, data, CacheTTL, dbFail)
    /\ arg' = [op |-> "set", key |-> CacheKey(lat, lon), data |-> data,
               at |-> now, fail |-> dbFail,
               prev |-> {row \in cache : row.id = CacheKey(lat, lon)}]
    /\ res' = [entry |-> NilPtr, err |-> dbFail]
    /\ UNCHANGED <<now, req, env>>

DbGet(lat, lon, dbFail) ==
    /\ \E got \in GetCachedWeather(lat, lon, dbFail) : res' = got
    /\ arg' = [op |-> "get", key |-> CacheKey(lat, lon),
               data |-> Marshal(ZeroWeatherData), at |-> now, fail |-> dbFail,
               prev |-> {}]
    /\ UNCHANGED <<now, cache, req, env>>

InitDB == InitService(0, TRUE, Zones)

NextDB ==
    \/ \E c \in StoreCoords, data \in StoreData, dbFail \in BOOLEAN :
           DbSet(c[1], c[2], data, dbFail)
    \/ \E c \in StoreCoords, dbFail \in BOOLEAN : DbGet(c[1], c[2], dbFail)
    \/ Tick

SpecDB == InitDB /\ [][NextDB]_vars

(***************************************************************************)
(* The normalizer on its own: transform applied to arguments drawn from    *)
(* bounded sets.                                                           *)
(***************************************************************************)
SeqsUpTo(S, n) == UNION {[1..k -> S] : k \in 0..n}

\* the kinds of daily period: a day, its night, a night warmer than the
\* day, another day
PeriodKinds ==
    {Period("Day", StartEmpty, TRUE, 70, 20, IconSkc, "Sunny"),
     Period("Night", StartEmpty, FALSE, 50, 40, IconRain, "Rain"),
     Period("Warm night", StartEmpty, FALSE, 75, 10, IconSkc, "Clear"),
     Period("Next day", StartEmpty, TRUE, 72, 0, IconBkn, "Cloudy")}

\* MaxDaily days in a row, none followed by a night
LongDaily ==
    [Periods |-> [i \in 1..MaxDaily |->
                    Period("Day", StartEmpty, TRUE, 70, 20, IconSkc, "Sunny")]]

DailyInputs == {NilPtr} \cup {[Periods |-> s] : s \in SeqsUpTo(PeriodKinds, MaxDaily)}

\* the i-th hourly period of an input: its temperature tells its position
HourlyPeriod(i) ==
    Period("hour " \o ToString(i),
           IF i % 3 = 0 THEN StartEmpty
           ELSE IF i % 3 = 1 THEN StartAt((i + 14) % 24, -8) ELSE StartInvalid,
           i % 2 = 1, 60 + i, 10 * i, IF i % 2 = 1 THEN IconBkn ELSE IconRain,
           "Cloudy")

HourlyOf(n) == [Periods |-> [i \in 1..n |-> HourlyPeriod(i)]]

HourlyInputs == {NilPtr} \cup {HourlyOf(n) : n \in 0..MaxHourly}

UnitDegF == <<"d", "e", "g", "F">>
UnitWmoDegK == <<"w", "m", "o", "U", "n", "i", "t", ":", "d", "e", "g", "K">>

ObservationInputs ==
    {NilPtr,
     [Value |-> ValNull, UnitCode |-> UnitWmoDegC],
     [Value |-> ValNaN, UnitCode |-> UnitWmoDegC],
     ObservationSample,
     [Value |-> ValNum(685), UnitCode |-> UnitDegF],
     [Value |-> ValNum(300), UnitCode |-> UnitWmoDegK]}

AlertsInputs == {EmptyAlerts, AlertsSample}

TransformCall(fc, hc, al, obs) ==
    [op |-> "transform", fc |-> fc, hc |-> hc, al |-> al, obs |-> obs]

InitTransform ==
    /\ now = 0
    /\ cache = {}
    /\ req = [r \in Reqs |-> IdleReq]
    /\ env = [starts |-> 0, limited |-> TRUE, faults |-> 0]
    /\ res = NoCall
    /\ \/ \E fc \in DailyInputs, hc \in {NilPtr, HourlyOf(2)},
             obs \in {NilPtr, ObservationSample} :
               arg = TransformCall(fc, hc, EmptyAlerts, obs)
       \/ \E fc \in {NilPtr, [Periods |-> <<>>], DailySample, LongDaily},
             hc \in HourlyInputs, al \in AlertsInputs, obs \in ObservationInputs :
               arg = TransformCall(fc, hc, al, obs)

\* wd, err := transform(fc, hc, al, obs)
Transform ==
    /\ arg.op = "transform"
    /\ res = NoCall
    /\ res' = [op |-> "transform", wd |-> transform(arg.fc, arg.hc, arg.al, arg.obs)]
    /\ UNCHANGED <<now, cache, req, env, arg>>

NextTransform == Transform

SpecTransform == InitTransform /\ [][NextTransform]_vars

(***************************************************************************)
(* Properties.                                                             *)
(***************************************************************************)
Done(r) == req[r].pc = "done"

\* the cache key of request r
Key(r) == CacheKey(req[r].rLat, req[r].rLon)

\* request r made the call of position site, and it succeeded / failed
OkCall(r, site) ==
    \E i \in DOMAIN req[r].calls :
        req[r].calls[i].site = site /\ req[r].calls[i].ok
FailedCall(r, site) ==
    \E i \in DOMAIN req[r].calls :
        req[r].calls[i].site = site /\ ~req[r].calls[i].ok

\* request r returned a snapshot that it fetched itself
FetchedFresh(r) ==
    Done(r) /\ req[r].calls # <<>> /\ req[r].ret.err = ""

\* two snapshots are equal apart from cachedAt and expiresAt
SameSnapshot(a, b) ==
    [a EXCEPT !.CachedAt = 0, !.ExpiresAt = 0]
        = [b EXCEPT !.CachedAt = 0, !.ExpiresAt = 0]

\* the snapshot request r1 fetched is the unexpired entry of its key
FreshEntry(r1) ==
    /\ FetchedFresh(r1)
    /\ ~req[r1].storeErr
    /\ \E row \in cache : /\ row.id = Key(r1)
                          /\ row.data = Marshal(req[r1].ret.wd)
                          /\ row.expires_at > now

\* the step in which r2 enters GetWeather for a key whose entry r1 wrote
C1_Step(r1, r2) ==
    (/\ r1 # r2
     /\ FreshEntry(r1)
     /\ req[r2].pc = "idle"
     /\ req'[r2].pc # "idle"
     /\ CacheKey(req'[r2].rLat, req'[r2].rLon) = Key(r1)
     /\ ~req'[r2].lookupErr)
    => (/\ req'[r2].pc = "done"
        /\ req'[r2].calls = <<>>
        /\ req'[r2].ret.err = ""
        /\ SameSnapshot(req'[r2].ret.wd, req[r1].ret.wd))

\* C1: once a request has fetched a snapshot and written it to the cache, a
\* request for coordinates that round to the same key, whose lookup runs (with
\* no storage failure) before the entry expires, returns at once, with no
\* upstream call, a snapshot equal to the first one apart from
\* cachedAt/expiresAt.
C1_SameKeyServedFromCache == [][\A r1, r2 \in Reqs : C1_Step(r1, r2)]_vars

C1_Witness ==
    \E r1, r2 \in Reqs :
        /\ r1 # r2
        /\ FreshEntry(r1)
        /\ Done(r2)
        /\ req[r2].cached # NilPtr
        /\ req[r2].calls = <<>>
        /\ Key(r2) = Key(r1)
        /\ req[r2].lat # req[r1].lat
        /\ req[r2].ret.wd.Location # ""
        /\ SameSnapshot(req[r2].ret.wd, req[r1].ret.wd)
        /\ req[r2].ret.wd.CachedAt # req[r1].ret.wd.CachedAt

\* the temperature the forecast data gives when no observation overrides it
ForecastTemperature(r) ==
    IF OkCall(r, "hourly") THEN HourlySample.Periods[1].Temperature
    ELSE DailySample.Periods[1].Temperature

\* C2: a request that went upstream returns an error exactly when its
\* point-metadata call or its daily-forecast call failed; failures of the
\* hourly, stations, latest-observation, alerts and reverse-geocode calls
\* leave a snapshot with an empty hourly list, the forecast's temperature, an
\* empty alert list and an empty location.
C2_OnlyPointAndForecastAreFatal ==
    \A r \in Reqs :
        (Done(r) /\ req[r].calls # <<>>) =>
            /\ (req[r].ret.err # "")
                   <=> (FailedCall(r, "point") \/ FailedCall(r, "forecast"))
            /\ (req[r].ret.err = "") =>
                   /\ req[r].ret.wd # NilPtr
                   /\ (~OkCall(r, "hourly")) => req[r].ret.wd.Hourly = <<>>
                   /\ (~OkCall(r, "latest")) =>
                          /\ req[r].ret.wd.Current.Temperature = ForecastTemperature(r)
                          /\ req[r].ret.wd.Current.TemperatureUnit = StrF
                   /\ (~OkCall(r, "alerts")) => req[r].ret.wd.Alerts = <<>>
                   /\ (~OkCall(r, "geocode")) => req[r].ret.wd.Location = ""

C2_Witness ==
    \E r \in Reqs :
        /\ Done(r)
        /\ req[r].ret.err = ""
        /\ req[r].ret.wd # NilPtr
        /\ FailedCall(r, "hourly")
        /\ FailedCall(r, "latest")
        /\ FailedCall(r, "alerts")
        /\ FailedCall(r, "geocode")
        /\ Len(req[r].ret.wd.Forecast) > 0

\* C3: a request whose cache lookup failed with a storage error has no cached
\* entry and goes on to the fresh fetch, first call point metadata; it
\* returns an error only if a fatal upstream call failed and otherwise the
\* snapshot it fetched.
C3_CacheReadErrorFallsThrough ==
    \A r \in Reqs :
        req[r].lookupErr =>
            /\ req[r].cached = NilPtr
            /\ req[r].pc # "idle"
            /\ Done(r) =>
                   /\ req[r].calls # <<>>
                   /\ req[r].calls[1].site = "point"
                   /\ (req[r].ret.err # "")
                          <=> (FailedCall(r, "point") \/ FailedCall(r, "forecast"))
                   /\ (req[r].ret.err = "") =>
                          (req[r].ret.wd # NilPtr /\ req[r].ret.wd = req[r].wd)

C3_Witness ==
    \E r1, r2 \in Reqs :
        /\ r1 # r2
        /\ FreshEntry(r1)
        /\ now < CacheTTL
        /\ Key(r2) = Key(r1)
        /\ req[r2].lookupErr
        /\ Done(r2)
        /\ req[r2].ret.err = ""
        /\ req[r2].ret.wd # NilPtr
        /\ OkCall(r2, "forecast")

\* C4: a request whose cache write failed has returned, without error, the
\* snapshot it fetched.
C4_CacheWriteErrorSwallowed ==
    \A r \in Reqs :
        req[r].storeErr =>
            /\ Done(r)
            /\ req[r].ret.err = ""
            /\ req[r].ret.wd # NilPtr
            /\ req[r].ret.wd = req[r].wd

C4_Witness ==
    \E r \in Reqs :
        /\ req[r].storeErr
        /\ Done(r)
        /\ req[r].ret.wd # NilPtr
        /\ req[r].ret.wd.Forecast # <<>>
        /\ \A row \in cache : row.id # Key(r)

\* what GetCachedWeather returns for a row it finds
HitOf(row) ==
    [entry |-> [Data |-> row.data, ExpiresAt |-> row.expires_at,
                CreatedAt |-> row.created_at],
     err |-> FALSE]

Miss == [entry |-> NilPtr, err |-> FALSE]

\* C5: after a lookup that the storage executed, the entry of the key, written
\* at created_at, expires one hour later; the lookup returned it if made
\* strictly before that time and reported a miss (nil, nil) if made at or
\* after it; with no entry it reported a miss.
C5_EntryLivesOneHour ==
    (arg.op = "get" /\ ~arg.fail) =>
        /\ \A row \in cache :
               row.id = arg.key =>
                   /\ row.expires_at = row.created_at + TicksPerHour
                   /\ row.created_at <= arg.at
                   /\ (arg.at < row.created_at + TicksPerHour) => res = HitOf(row)
                   /\ (arg.at >= row.created_at + TicksPerHour) => res = Miss
        /\ (\A row \in cache : row.id # arg.key) => res = Miss

C5_Witness ==
    /\ arg.op = "get"
    /\ ~arg.fail
    /\ res = Miss
    /\ \E row \in cache :
           /\ row.id = arg.key
           /\ arg.at = row.created_at + TicksPerHour

C6_State ==
    /\ \A a, b \in cache : a.id = b.id => a = b
    /\ (arg.op = "set" /\ ~arg.fail) =>
           [id |-> arg.key, data |-> arg.data,
            expires_at |-> arg.at + TicksPerHour, created_at |-> arg.at] \in cache

C6_Action ==
    cache' # cache =>
        /\ arg'.op = "set"
        /\ ~arg'.fail
        /\ {row \in cache' : row.id # arg'.key} = {row \in cache : row.id # arg'.key}

\* C6: the table never holds two rows of one key; after a Set the row of its
\* key carries the data given, the expiry one hour after the Set and the time
\* of the Set as creation time; a step that changes the table is a Set and
\* leaves the rows of the other keys as they were.
C6_Upsert == []C6_State /\ [][C6_Action]_vars

C6_Witness ==
    /\ arg.op = "set"
    /\ ~arg.fail
    /\ \E p \in arg.prev : p.expires_at <= arg.at /\ p.data # arg.data
    /\ Cardinality(cache) = 2
    /\ Cardinality({row \in cache : row.id = arg.key}) = 1

\* the row a request writes
RowOf(r) ==
    [id |-> Key(r), data |-> Marshal(req[r].wd),
     expires_at |-> now + CacheTTL, created_at |-> now]

C7_State ==
    /\ \A a, b \in cache : a.id = b.id => a = b
    /\ \A r \in Reqs :
           (req[r].pc # "idle" /\ req[r].cached = NilPtr) =>
               /\ req[r].pc = "point" \/ req[r].calls # <<>>
               /\ (Done(r) /\ req[r].ret.err = "") =>
                      /\ OkCall(r, "point")
                      /\ OkCall(r, "forecast")
                      /\ OkCall(r, "alerts") \/ FailedCall(r, "alerts")
                      /\ OkCall(r, "geocode") \/ FailedCall(r, "geocode")
                      /\ req[r].ret.wd = req[r].wd

C7_Action ==
    cache' # cache =>
        \E r \in Reqs :
            /\ req[r].pc = "store"
            /\ req'[r].pc = "done"
            /\ cache' = {row \in cache : row.id # Key(r)} \cup {RowOf(r)}

\* C7: every request that misses the cache makes its own upstream calls and
\* returns the snapshot it built itself, whatever the other request does; the
\* table never holds two rows of one key, and every change of it is one
\* request replacing the row of its key by its own whole snapshot.
C7_ConcurrentFetchesOverwrite == []C7_State /\ [][C7_Action]_vars

C7_Witness ==
    /\ now < CacheTTL
    /\ \A r \in Reqs :
           /\ FetchedFresh(r)
           /\ req[r].cached = NilPtr
           /\ ~req[r].lookupErr
           /\ ~req[r].storeErr
    /\ Key(1) = Key(2)
    /\ ~SameSnapshot(req[1].ret.wd, req[2].ret.wd)
    /\ Cardinality(cache) = 1
    /\ \E row \in cache : \E r \in Reqs : row.data = Marshal(req[r].ret.wd)

\* the place of a call in the order of fetchFreshWeather
Rank(site) ==
    CASE site = "point" -> 1
      [] site = "hourly" -> 2
      [] site = "stations" -> 3
      [] site = "latest" -> 4
      [] site = "forecast" -> 5
      [] site = "alerts" -> 6
      [] site = "geocode" -> 7

\* C8: the calls of a request are logged in the order point metadata, hourly
\* forecast, observation stations, latest observation, daily forecast,
\* alerts, reverse geocode, whichever of them are skipped; the first is the
\* point metadata, a latest-observation call directly follows a successful
\* stations call, and nothing follows a failed point-metadata or
\* daily-forecast call.
C8_CallOrder ==
    \A r \in Reqs :
        LET c == req[r].calls
        IN  /\ \A i, j \in DOMAIN c : i < j => Rank(c[i].site) < Rank(c[j].site)
            /\ c # <<>> => c[1].site = "point"
            /\ \A i \in DOMAIN c :
                   (c[i].site \in {"point", "forecast"} /\ ~c[i].ok) => i = Len(c)
            /\ \A i \in DOMAIN c :
                   c[i].site = "latest" =>
                       (i > 1 /\ c[i - 1].site = "stations" /\ c[i - 1].ok)

C8_Witness ==
    \E r \in Reqs :
        /\ Done(r)
        /\ Len(req[r].calls) = 7
        /\ req[r].calls[2].site = "hourly"
        /\ req[r].calls[5].site = "forecast"
        /\ req[r].calls[7].site = "geocode"

\* C9: no request makes the same upstream call twice: no two entries of its
\* log have the same position, nor the same client function and arguments.
C9_NoRetry ==
    \A r \in Reqs :
        LET c == req[r].calls
        IN  \A i, j \in DOMAIN c :
                i # j =>
                    /\ c[i].site # c[j].site
                    /\ <<c[i].op, c[i].url>> # <<c[j].op, c[j].url>>

C9_Witness ==
    \E r \in Reqs :
        /\ Done(r)
        /\ req[r].ret.err = ""
        /\ FailedCall(r, "hourly")
        /\ FailedCall(r, "latest")
        /\ FailedCall(r, "alerts")
        /\ Len(req[r].calls) = 7

\* C10: the forecast list and the hourly list of the snapshot transform
\* returns have at most 5 entries each.
C10_AtMostFiveEntries ==
    res.op = "transform" =>
        /\ Len(res.wd.Forecast) <= 5
        /\ Len(res.wd.Hourly) <= 5

C10_Witness ==
    /\ res.op = "transform"
    /\ arg.fc # NilPtr
    /\ arg.hc # NilPtr
    /\ Len(arg.fc.Periods) > 5
    /\ Len(arg.hc.Periods) > 5
    /\ Len(res.wd.Forecast) = 5
    /\ Len(res.wd.Hourly) = 5

\* the period the current conditions of request r come from
CurrentSource(r) ==
    IF req[r].hc # NilPtr /\ Len(req[r].hc.Periods) > 0
    THEN req[r].hc.Periods[1]
    ELSE req[r].fc.Periods[1]

\* C11 as stated: a request that went upstream succeeds if the hourly or the
\* daily forecast call succeeded, and fails only when both failed.
C11_AnyForecastSourceSuffices ==
    \A r \in Reqs :
        (Done(r) /\ req[r].calls # <<>>) =>
            /\ (OkCall(r, "hourly") \/ OkCall(r, "forecast")) =>
                   (req[r].ret.err = "" /\ req[r].ret.wd # NilPtr)
            /\ (req[r].ret.err # "") =>
                   (~OkCall(r, "hourly") /\ ~OkCall(r, "forecast"))

\* C11 (amended): a request that went upstream fails exactly when its daily
\* forecast call did not succeed (the point metadata or the daily forecast
\* failed), whether or not the hourly forecast succeeded; when the daily
\* forecast succeeded the snapshot's current conditions are those of the
\* first hourly period if the hourly forecast gave one, else those of the
\* first daily period.
C11_DailyForecastRequired ==
    \A r \in Reqs :
        (Done(r) /\ req[r].calls # <<>>) =>
            /\ (req[r].ret.err # "") <=> ~OkCall(r, "forecast")
            /\ OkCall(r, "forecast") =>
                   /\ req[r].ret.wd # NilPtr
                   /\ LET cur == req[r].ret.wd.Current
                          src == CurrentSource(r)
                      IN  /\ cur.ShortForecast = src.ShortForecast
                          /\ cur.Precipitation = src.Precip
                          /\ cur.WindSpeed = src.WindSpeed
                          /\ cur.WindDirection = src.WindDirection
                          /\ cur.Icon = mapIcon(src.Icon, src.IsDaytime)
                          /\ (~OkCall(r, "latest")) =>
                                 /\ cur.Temperature = src.Temperature
                                 /\ cur.TemperatureUnit = src.TemperatureUnit

C11_Witness ==
    \E r \in Reqs :
        /\ Done(r)
        /\ FailedCall(r, "hourly")
        /\ OkCall(r, "forecast")
        /\ req[r].ret.err = ""
        /\ req[r].ret.wd.Current.ShortForecast = DailySample.Periods[1].ShortForecast
        /\ req[r].ret.wd.Current.Temperature = DailySample.Periods[1].Temperature

\* the larger of two numbers
Max(a, b) == IF a > b THEN a ELSE b

\* the first n elements of a sequence
Take(s, n) == SubSeq(s, 1, IF Len(s) < n THEN Len(s) ELSE n)

\* the pairing rule on its own, with no cap: the entries of the periods
\* from position i on, as (name, high, low, precipitation)
RECURSIVE PairedFrom(_, _)
PairedFrom(ps, i) ==
    IF i > Len(ps) THEN <<>>
    ELSE IF ps[i].IsDaytime /\ i < Len(ps) /\ ~ps[i + 1].IsDaytime
    THEN <<[Name |-> ps[i].Name, High |-> ps[i].Temperature,
            Low |-> ps[i + 1].Temperature,
            Precip |-> Max(ps[i].Precip, ps[i + 1].Precip)]>>
             \o PairedFrom(ps, i + 2)
    ELSE <<[Name |-> ps[i].Name, High |-> ps[i].Temperature,
            Low |-> ps[i].Temperature, Precip |-> ps[i].Precip]>>
             \o PairedFrom(ps, i + 1)

\* the daily entries of a snapshot as (name, high, low, precipitation)
DailyEntries(wd) ==
    [k \in 1..Len(wd.Forecast) |->
        [Name |-> wd.Forecast[k].Name, High |-> wd.Forecast[k].HighTemp,
         Low |-> wd.Forecast[k].LowTemp, Precip |-> wd.Forecast[k].PrecipChance]]

\* C12: the daily list transform returns is the first 5 entries of the
\* left-to-right pairing of the daily periods: a day directly followed by a
\* night gives one entry (high of the day, low of the night, the larger
\* precipitation) and consumes both, any other period gives an entry with its
\* own temperature as high and low; [day 70, night 50, day 72] gives
\* {70, 50} and {72, 72}.
C12_DailyPairing ==
    res.op = "transform" =>
        /\ DailyEntries(res.wd) =
               IF arg.fc = NilPtr THEN <<>>
               ELSE Take(PairedFrom(arg.fc.Periods, 1), 5)
        /\ arg.fc = DailySample =>
               /\ Len(res.wd.Forecast) = 2
               /\ res.wd.Forecast[1].HighTemp = 70 /\ res.wd.Forecast[1].LowTemp = 50
               /\ res.wd.Forecast[2].HighTemp = 72 /\ res.wd.Forecast[2].LowTemp = 72

C12_Witness ==
    /\ res.op = "transform"
    /\ arg.fc # NilPtr
    /\ Len(arg.fc.Periods) = 3
    /\ arg.fc.Periods[1].IsDaytime /\ arg.fc.Periods[1].Temperature = 70
    /\ ~arg.fc.Periods[2].IsDaytime /\ arg.fc.Periods[2].Temperature = 50
    /\ arg.fc.Periods[3].IsDaytime /\ arg.fc.Periods[3].Temperature = 72
    /\ arg.fc.Periods[2].Precip > arg.fc.Periods[1].Precip
    /\ DailyEntries(res.wd) =
           <<[Name |-> arg.fc.Periods[1].Name, High |-> 70, Low |-> 50,
              Precip |-> arg.fc.Periods[2].Precip],
             [Name |-> arg.fc.Periods[3].Name, High |-> 72, Low |-> 72,
              Precip |-> arg.fc.Periods[3].Precip]>>

\* C13: with an hourly forecast of n periods the hourly list has min(n, 5)
\* entries and entry i carries the temperature, unit, description,
\* precipitation and icon of input period i; without an hourly forecast the
\* list is empty.
C13_HourlyFirstFiveInOrder ==
    res.op = "transform" =>
        IF arg.hc = NilPtr THEN res.wd.Hourly = <<>>
        ELSE LET ps == arg.hc.Periods
                 n == Len(ps)
             IN  /\ Len(res.wd.Hourly) = (IF n < 5 THEN n ELSE 5)
                 /\ \A i \in DOMAIN res.wd.Hourly :
                        /\ res.wd.Hourly[i].Temperature = ps[i].Temperature
                        /\ res.wd.Hourly[i].TemperatureUnit = ps[i].TemperatureUnit
                        /\ res.wd.Hourly[i].ShortForecast = ps[i].ShortForecast
                        /\ res.wd.Hourly[i].PrecipChance = ps[i].Precip
                        /\ res.wd.Hourly[i].Icon = mapIcon(ps[i].Icon, ps[i].IsDaytime)

C13_Witness ==
    /\ res.op = "transform"
    /\ arg.hc # NilPtr
    /\ Len(arg.hc.Periods) = 7
    /\ Len(res.wd.Hourly) = 5
    /\ res.wd.Hourly[5].Temperature = arg.hc.Periods[5].Temperature
    /\ res.wd.Hourly[5].Temperature # arg.hc.Periods[7].Temperature
    /\ res.wd.Hourly[1].Temperature = arg.hc.Periods[1].Temperature

\* the observation carries a temperature that is neither null nor NaN
ObsValid(obs) == obs # NilPtr /\ obs.Value.kind = "num"

HasPeriods(f) == f # NilPtr /\ Len(f.Periods) > 0

\* the current conditions cur are those of period p, temperature and unit
\* included when withTemp
CurrentIsFrom(cur, p, withTemp) ==
    /\ cur.ShortForecast = p.ShortForecast
    /\ cur.Precipitation = p.Precip
    /\ cur.WindSpeed = p.WindSpeed
    /\ cur.WindDirection = p.WindDirection
    /\ cur.Icon = mapIcon(p.Icon, p.IsDaytime)
    /\ withTemp => (cur.Temperature = p.Temperature
                    /\ cur.TemperatureUnit = p.TemperatureUnit)

\* C14: the current conditions other than high/low are those of the first
\* hourly period when the hourly forecast has one, else those of the first
\* daily period when the daily forecast has one, else zero/empty; temperature
\* and unit are compared when no observation overrides them.
C14_CurrentSourcePriority ==
    res.op = "transform" =>
        LET cur == res.wd.Current
            plain == ~ObsValid(arg.obs)
        IN  IF HasPeriods(arg.hc) THEN CurrentIsFrom(cur, arg.hc.Periods[1], plain)
            ELSE IF HasPeriods(arg.fc) THEN CurrentIsFrom(cur, arg.fc.Periods[1], plain)
            ELSE /\ cur.ShortForecast = "" /\ cur.Precipitation = 0
                 /\ cur.WindSpeed = "" /\ cur.WindDirection = "" /\ cur.Icon = ""
                 /\ plain => (cur.Temperature = 0 /\ cur.TemperatureUnit = <<>>)

C14_Witness ==
    /\ res.op = "transform"
    /\ HasPeriods(arg.hc)
    /\ HasPeriods(arg.fc)
    /\ arg.obs = NilPtr
    /\ arg.hc.Periods[1].ShortForecast # arg.fc.Periods[1].ShortForecast
    /\ arg.hc.Periods[1].Temperature # arg.fc.Periods[1].Temperature
    /\ res.wd.Current.ShortForecast = arg.hc.Periods[1].ShortForecast
    /\ res.wd.Current.Temperature = arg.hc.Periods[1].Temperature

\* what transform gives for the arguments of the last call with the
\* observation left out
WithoutObservation == transform(arg.fc, arg.hc, arg.al, NilPtr)

\* C15: the snapshot transform returns for inputs with an observation
\* differs from the one for the same inputs without it at most in
\* current.temperature and current.temperatureUnit, and does not differ at
\* all when the observation's value is null or NaN.
C15_ObservationOverridesOnlyTemperature ==
    res.op = "transform" =>
        IF ObsValid(arg.obs)
        THEN res.wd = [WithoutObservation EXCEPT
                         !.Current.Temperature = res.wd.Current.Temperature,
                         !.Current.TemperatureUnit = res.wd.Current.TemperatureUnit]
        ELSE res.wd = WithoutObservation

C15_Witness ==
    /\ res.op = "transform"
    /\ ObsValid(arg.obs)
    /\ HasPeriods(arg.hc)
    /\ HasPeriods(arg.fc)
    /\ arg.al.Features # <<>>
    /\ res.wd.Current.Temperature # WithoutObservation.Current.Temperature
    /\ res.wd.Current.Temperature # res.wd.Current.HighTemp
    /\ res.wd.Current.ShortForecast = arg.hc.Periods[1].ShortForecast
    /\ res.wd.Current.HighTemp = arg.fc.Periods[1].Temperature

\* C16: when transform is given neither a daily nor an hourly forecast and
\* an observation with a valid temperature, current.highTemp and
\* current.lowTemp both equal the converted observation temperature.
C16_ObservationSeedsHighLow ==
    (/\ res.op = "transform"
     /\ arg.fc = NilPtr
     /\ arg.hc = NilPtr
     /\ ObsValid(arg.obs)) =>
        /\ res.wd.Current.HighTemp = observationTemperature(arg.obs).temp
        /\ res.wd.Current.LowTemp = observationTemperature(arg.obs).temp

(***************************************************************************)
(* observationTemperature on its own, applied to observations drawn from   *)
(* bounded sets.                                                           *)
(***************************************************************************)
UnitK == <<"K">>
UnitTrailingColon == <<"K", ":">>
UnitTwoColons == <<"a", ":", "b", ":", "K">>

UnitCodeInputs ==
    {StrDegC, UnitDegF, UnitWmoDegC, UnitWmoDegK, UnitK, <<>>,
     UnitTrailingColon, UnitTwoColons}

ObservationTemperatureInputs ==
    {NilPtr}
        \cup {[Value |-> v, UnitCode |-> u] :
                 v \in {ValNull, ValNaN} \cup {ValNum(t) : t \in (-MaxTenths)..MaxTenths},
                 u \in UnitCodeInputs}

InitObservation ==
    /\ now = 0
    /\ cache = {}
    /\ req = [r \in Reqs |-> IdleReq]
    /\ env = [starts |-> 0, limited |-> TRUE, faults |-> 0]
    /\ res = NoCall
    /\ \E obs \in ObservationTemperatureInputs :
           arg = [op |-> "observationTemperature", obs |-> obs]

\* temp, unit, ok := observationTemperature(obs)
ObservationTemperature ==
    /\ arg.op = "observationTemperature"
    /\ res = NoCall
    /\ res' = [op |-> "observationTemperature", out |-> observationTemperature(arg.obs)]
    /\ UNCHANGED <<now, cache, req, env, arg>>

NextObservation == ObservationTemperature

SpecObservation == InitObservation /\ [][NextObservation]_vars

Abs(x) == IF x < 0 THEN -x ELSE x

\* the integer nearest to n / d (d > 0), the one farther from zero on a tie
Nearest(n, d) ==
    CHOOSE k \in ((n \div d) - 1)..((n \div d) + 1) :
        \/ 2 * Abs(k * d - n) < d
        \/ 2 * Abs(k * d - n) = d /\ Abs(k * d) > Abs(n)

\* the text u ends in the text w
EndsIn(u, w) ==
    /\ Len(u) >= Len(w)
    /\ \A i \in 1..Len(w) : u[Len(u) - Len(w) + i] = w[i]

HasColon(u) == \E i \in 1..Len(u) : u[i] = ":"

\* the part of u after its last colon
AfterLastColon(u) ==
    LET i == CHOOSE j \in 1..Len(u) :
                 u[j] = ":" /\ \A k \in (j + 1)..Len(u) : u[k] # ":"
    IN  [k \in 1..(Len(u) - i) |-> u[i + k]]

LabelAsClaimed(u) == IF HasColon(u) THEN AfterLastColon(u) ELSE u

LabelAmended(u) ==
    IF HasColon(u) /\ u[Len(u)] # ":" THEN AfterLastColon(u) ELSE u

\* the reference of the claim, with the label rule as claimed or as amended
ReferenceHolds(amended) ==
    (/\ res.op = "observationTemperature"
     /\ ObsValid(arg.obs)) =>
        LET t == arg.obs.Value.tenths
            u == arg.obs.UnitCode
        IN  /\ res.out.ok
            /\ IF EndsIn(u, <<"d", "e", "g", "C">>)
               THEN /\ res.out.temp = Nearest(9 * t + 1600, 50)
                    /\ res.out.unit = <<"F">>
               ELSE IF EndsIn(u, <<"d", "e", "g", "F">>)
               THEN /\ res.out.temp = Nearest(t, 10)
                    /\ res.out.unit = <<"F">>
               ELSE /\ res.out.temp = Nearest(t, 10)
                    /\ res.out.unit = (IF amended THEN LabelAmended(u)
                                       ELSE LabelAsClaimed(u))

\* C17 as stated: for a valid value the result is (round(v*9/5+32), "F") for
\* a code ending in degC, (round(v), "F") for one ending in degF, else
\* (round(v), the part of the code after its last colon, or the whole code
\* when it has no colon), rounding ties away from zero.
C17_ObservationReference == ReferenceHolds(FALSE)

\* C17 (amended): as stated, except that the label of another code is the
\* part after its last colon only when that part is not empty; a code with
\* no colon, or ending in a colon, is its own label.
C17_ObservationReferenceAmended == ReferenceHolds(TRUE)

C17_Witness ==
    /\ res.op = "observationTemperature"
    /\ ObsValid(arg.obs)
    /\ arg.obs.Value.tenths = -25
    /\ arg.obs.UnitCode = UnitTwoColons
    /\ res.out = [temp |-> -3, unit |-> <<"K">>, ok |-> TRUE]

(***************************************************************************)
(* transform run more than once on the same arguments, in one memory.      *)
(* transform takes pointers: the responses it reads and the snapshot it    *)
(* builds live in the same heap, and a run finds the heap as the run       *)
(* before left it.  The heap is a sequence of blocks, an address is the    *)
(* index of a block, and a block is the sequence of its cells: one cell    *)
(* for a struct or a float64, one cell per element for the backing array   *)
(* of a slice.  A slice is its header [ptr, len, cap].                     *)
(***************************************************************************)
\* the nil pointer
NilAddr == 0

\* the content of array cells beyond a slice's length
ZeroCell == [zero |-> TRUE]

\* a new block: the heap with it, and its address
Alloc(mem, block) == [mem |-> Append(mem, block), ptr |-> Len(mem) + 1]

\* a[i] = v for the array at ptr, *ptr = v for i = 1
Store(mem, ptr, i, v) == [mem EXCEPT ![ptr][i] = v]

\* p.field = v for the struct at ptr
StoreField(mem, ptr, field, v) == [mem EXCEPT ![ptr][1][field] = v]

\* the elements of slice s
SliceElems(mem, s) == SubSeq(mem[s.ptr], 1, s.len)

\* append(s, v): into the spare capacity of the backing array when there is
\* some, otherwise into a new array of twice the capacity that the elements
\* are copied to
AppendSlice(mem, s, v) ==
    IF s.len < s.cap
    THEN [mem |-> Store(mem, s.ptr, s.len + 1, v),
          slice |-> [s EXCEPT !.len = @ + 1]]
    ELSE LET newcap == IF s.cap = 0 THEN 1 ELSE 2 * s.cap
             a == Alloc(mem, SliceElems(mem, s) \o <<v>>
                                 \o [i \in 1..(newcap - s.len - 1) |-> ZeroCell])
         IN  [mem |-> a.mem,
              slice |-> [ptr |-> a.ptr, len |-> s.len + 1, cap |-> newcap]]

\* the element of a one-element set; it names the heap that a statement
\* left for the statements after it
The(S) == CHOOSE x \in S : TRUE

\* wd.field = append(wd.field, e) for each of entries in order
RECURSIVE AppendEach(_, _, _, _)
AppendEach(mem, wd, field, entries) ==
    IF entries = <<>> THEN mem
    ELSE The({AppendEach(StoreField(a.mem, wd, field, a.slice),
                         wd, field, Tail(entries)) :
                a \in {AppendSlice(mem, mem[wd][1][field], Head(entries))}})

\* *fc for a *ForecastResponse
ForecastAt(mem, fc) ==
    IF fc = NilAddr THEN NilPtr
    ELSE [Periods |-> SliceElems(mem, mem[fc][1].Periods)]

\* *al for an *AlertsResponse
AlertsAt(mem, al) == [Features |-> SliceElems(mem, mem[al][1].Features)]

\* *obs for an *ObservationResponse, with the float64 that Value points to
ObservationAt(mem, obs) ==
    IF obs = NilAddr THEN NilPtr
    ELSE [Value |-> IF mem[obs][1].Value = NilAddr THEN ValNull
                    ELSE mem[mem[obs][1].Value][1],
          UnitCode |-> mem[obs][1].UnitCode]

\* the WeatherData at wd and the elements of its slices
SnapshotAt(mem, wd) ==
    [Current |-> mem[wd][1].Current,
     Forecast |-> SliceElems(mem, mem[wd][1].Forecast),
     Hourly |-> SliceElems(mem, mem[wd][1].Hourly),
     Alerts |-> SliceElems(mem, mem[wd][1].Alerts),
     CachedAt |-> mem[wd][1].CachedAt,
     ExpiresAt |-> mem[wd][1].ExpiresAt,
     Location |-> mem[wd][1].Location]

\* make([]T, 0): a slice of no capacity on an array of no elements
MakeSlice(mem) ==
    LET a == Alloc(mem, <<>>)
    IN  [mem |-> a.mem, slice |-> [ptr |-> a.ptr, len |-> 0, cap |-> 0]]

\* wd := &WeatherData{CachedAt: time.Now(), ..., Alerts: make([]Alert, 0)}
NewWeatherData(mem) ==
    LET forecast == MakeSlice(mem)
        hourly == MakeSlice(forecast.mem)
        alerts == MakeSlice(hourly.mem)
    IN  Alloc(alerts.mem,
              <<[Current |-> ZeroCurrent,
                 Forecast |-> forecast.slice,
                 Hourly |-> hourly.slice,
                 Alerts |-> alerts.slice,
                 CachedAt |-> now,
                 ExpiresAt |-> now + SnapshotTTL,
                 Location |-> ""]>>)

\* the observation override with a conversion made in place:
\* *temp = (*temp * 9.0 / 5.0) + 32.0 where the code has f := ...
OverrideCurrentInPlace(mem, wd, obs) ==
    LET o == ObservationAt(mem, obs)
        ot == observationTemperature(o)
        mem1 == IF o # NilPtr /\ o.Value.kind = "num"
                   /\ HasSuffix(o.UnitCode, StrDegC)
                THEN Store(mem, mem[obs][1].Value, 1,
                           ValNum(RoundDiv(9 * o.Value.tenths, 5) + 320))
                ELSE mem
    IN  IF ot.ok
        THEN StoreField(mem1, wd, "Current",
                 [mem1[wd][1].Current EXCEPT !.Temperature = ot.temp,
                                             !.TemperatureUnit = ot.unit])
        ELSE mem1

\* if temp, unit, ok := observationTemperature(obs); ok { wd.Current... }
OverrideCurrent(mem, wd, obs) ==
    LET ot == observationTemperature(ObservationAt(mem, obs))
    IN  IF ot.ok
        THEN StoreField(mem, wd, "Current",
                 [mem[wd][1].Current EXCEPT !.Temperature = ot.temp,
                                            !.TemperatureUnit = ot.unit])
        ELSE mem

\* the k-th statement of transform on the heap that the statements before it
\* left: the hourly loop, the current conditions, today's high and low, the
\* daily loop, the observation override, the alerts loop
Statement(k, mem, wd, fc, hc, al, obs) ==
    LET hasDaily == fc # NilAddr /\ Len(ForecastAt(mem, fc).Periods) > 0
    IN  CASE k = 1 ->
               IF hc # NilAddr
               THEN AppendEach(mem, wd, "Hourly",
                        HourlyLoop(ForecastAt(mem, hc).Periods, 1, <<>>))
               ELSE mem
          [] k = 2 ->
               IF hc # NilAddr /\ Len(ForecastAt(mem, hc).Periods) > 0
               THEN StoreField(mem, wd, "Current",
                        CurrentFrom(ForecastAt(mem, hc).Periods[1]))
               ELSE IF hasDaily
               THEN StoreField(mem, wd, "Current",
                        CurrentFrom(ForecastAt(mem, fc).Periods[1]))
               ELSE mem
          [] k = 3 ->
               IF hasDaily
               THEN LET hl == TodayHighLow(ForecastAt(mem, fc).Periods)
                    IN  StoreField(mem, wd, "Current",
                            [mem[wd][1].Current EXCEPT !.HighTemp = hl.high,
                                                       !.LowTemp = hl.low])
               ELSE mem
          [] k = 4 ->
               IF hasDaily
               THEN AppendEach(mem, wd, "Forecast",
                        DailyLoop(ForecastAt(mem, fc).Periods, 1, 0, <<>>))
               ELSE mem
          [] k = 5 -> OverrideCurrent(mem, wd, obs)
          [] k = 6 -> AppendEach(mem, wd, "Alerts", AlertsOf(AlertsAt(mem, al)))

\* the statements of transform from the k-th on, in order
RECURSIVE Statements(_, _, _, _, _, _, _)
Statements(k, mem, wd, fc, hc, al, obs) ==
    IF k > 6 THEN mem
    ELSE The({Statements(k + 1, m, wd, fc, hc, al, obs) :
                m \in {Statement(k, mem, wd, fc, hc, al, obs)}})

\* transform on the heap: wd is allocated, the statements write through it,
\* and it is returned
transformOnHeap(mem, fc, hc, al, obs) ==
    The({[mem |-> Statements(1, new.mem, new.ptr, fc, hc, al, obs),
          wd |-> new.ptr] : new \in {NewWeatherData(mem)}})

\* how encoding/json grows a slice while it reads a JSON array, which
\* depends on the Go release the program is built with: by reflect's Grow(1)
\* to capacities 1, 2, 4, 8, or by half the capacity and to 4 at least, to
\* capacities 4, 6, 9
GrowthRules == {"double", "half"}

\* the capacity that follows cap when an element does not fit
GrowCap(cap, rule) ==
    IF rule = "double" THEN (IF cap = 0 THEN 1 ELSE 2 * cap)
    ELSE IF cap + cap \div 2 < 4 THEN 4
    ELSE cap + cap \div 2

\* the capacity reached from cap when n elements have been read
RECURSIVE CapFor(_, _, _)
CapFor(n, cap, rule) ==
    IF n <= cap THEN cap ELSE CapFor(n, GrowCap(cap, rule), rule)

\* a slice of elems as json.Unmarshal leaves it: the array it grew to last,
\* not trimmed to the length (the arrays it outgrew are unreachable and are
\* left out); an empty JSON array gives a slice of no capacity
LoadSlice(mem, elems, rule) ==
    LET cap == CapFor(Len(elems), 0, rule)
        a == Alloc(mem, elems \o [i \in 1..(cap - Len(elems)) |-> ZeroCell])
    IN  [mem |-> a.mem,
         slice |-> [ptr |-> a.ptr, len |-> Len(elems), cap |-> cap]]

\* &fc for a decoded ForecastResponse, nil for none
LoadForecast(mem, f, rule) ==
    IF f = NilPtr THEN [mem |-> mem, ptr |-> NilAddr]
    ELSE LET s == LoadSlice(mem, f.Periods, rule)
         IN  Alloc(s.mem, <<[Periods |-> s.slice]>>)

\* &al for a decoded AlertsResponse
LoadAlerts(mem, al, rule) ==
    LET s == LoadSlice(mem, al.Features, rule)
    IN  Alloc(s.mem, <<[Features |-> s.slice]>>)

\* &obs for a decoded ObservationResponse, nil for none; Value is nil for a
\* JSON null and points to a float64 otherwise
LoadObservation(mem, o) ==
    IF o = NilPtr THEN [mem |-> mem, ptr |-> NilAddr]
    ELSE LET v == IF o.Value.kind = "null" THEN [mem |-> mem, ptr |-> NilAddr]
                  ELSE Alloc(mem, <<o.Value>>)
         IN  Alloc(v.mem, <<[Value |-> v.ptr, UnitCode |-> o.UnitCode]>>)

\* no run of transform yet
NoRuns == [op |-> "runs", runs |-> <<>>]

InitTwice ==
    /\ now = 0
    /\ cache = {}
    /\ req = [r \in Reqs |-> IdleReq]
    /\ res = NoRuns
    /\ \E fc \in {NilPtr, [Periods |-> <<>>], DailySample, LongDaily},
          hc \in HourlyInputs, al \in AlertsInputs, obs \in ObservationInputs :
            \E rule \in GrowthRules :
            \E f \in {LoadForecast(<<>>, fc, rule)} :
            \E h \in {LoadForecast(f.mem, hc, rule)} :
            \E a \in {LoadAlerts(h.mem, al, rule)} :
            \E o \in {LoadObservation(a.mem, obs)} :
                /\ env = [mem |-> o.mem]
                /\ arg = TransformCall(f.ptr, h.ptr, a.ptr, o.ptr)

\* wd, err := transform(fc, hc, al, obs) once more with the same pointers;
\* res keeps each returned pointer and the snapshot it pointed to on return
TransformOnHeap ==
    /\ arg.op = "transform"
    /\ Len(res.runs) < MaxRuns
    /\ \E r \in {transformOnHeap(env.mem, arg.fc, arg.hc, arg.al, arg.obs)} :
           /\ env' = [mem |-> r.mem]
           /\ res' = [res EXCEPT !.runs =
                        Append(@, [wd |-> r.wd, out |-> SnapshotAt(r.mem, r.wd)])]
    /\ UNCHANGED <<now, cache, req, arg>>

NextTwice == TransformOnHeap \/ Tick

SpecTwice == InitTwice /\ [][NextTwice]_vars

\* what the arguments of the call point to
InputsAt(mem, call) ==
    [fc |-> ForecastAt(mem, call.fc),
     hc |-> ForecastAt(mem, call.hc),
     al |-> AlertsAt(mem, call.al),
     obs |-> ObservationAt(mem, call.obs)]

\* every snapshot on the heap is still what the run of transform on the
\* values of the arguments gives
HeapAgreesWithTransform ==
    \A i \in DOMAIN res.runs :
        LET inp == InputsAt(env.mem, arg)
        IN  SameSnapshot(res.runs[i].out, transform(inp.fc, inp.hc, inp.al, inp.obs))

\* C18: the runs of transform on the same arguments, at whatever times and
\* each in the memory the runs before it left, return snapshots equal in
\* every field other than cachedAt and expiresAt, and no run changes what its
\* arguments point to.
C18_MergeDeterministic ==
    /\ [](\A i, j \in DOMAIN res.runs :
             SameSnapshot(res.runs[i].out, res.runs[j].out))
    /\ [][InputsAt(env'.mem, arg') = InputsAt(env.mem, arg)]_vars

C18_Witness ==
    /\ Len(res.runs) >= 2
    /\ res.runs[1].wd # res.runs[2].wd
    /\ res.runs[1].out.CachedAt # res.runs[2].out.CachedAt
    /\ res.runs[1].out.ExpiresAt # res.runs[2].out.ExpiresAt
    /\ HasPeriods(ForecastAt(env.mem, arg.fc))
    /\ HasPeriods(ForecastAt(env.mem, arg.hc))
    /\ Len(ForecastAt(env.mem, arg.hc).Periods) > HourlyLimit
    /\ ObservationAt(env.mem, arg.obs) = ObservationSample
    /\ AlertsAt(env.mem, arg.al).Features # <<>>
    /\ Len(res.runs[2].out.Hourly) = HourlyLimit
    /\ res.runs[2].out.Current.Temperature = 68
    /\ SameSnapshot(res.runs[1].out, res.runs[2].out)

(***************************************************************************)
(* ReverseGeocode (internal/weather/client.go) on its own.  outcome tells  *)
(* what the HTTP request gave: a body that decodes to resp ("ok"), a       *)
(* transport or status error ("http error"), or a body that is not JSON    *)
(* ("bad json").                                                           *)
(***************************************************************************)
\* ReverseGeocode that looks at the town before the city
ReverseGeocodeTownFirst(outcome, resp) ==
    IF outcome = "http error" THEN [loc |-> "", err |-> "request failed"]
    ELSE IF outcome = "bad json" THEN [loc |-> "", err |-> "invalid json"]
    ELSE LET place == IF resp.Town # "" THEN resp.Town
                      ELSE IF resp.City # "" THEN resp.City
                      ELSE IF resp.Village # "" THEN resp.Village
                      ELSE ""
         IN  IF place # ""
             THEN (IF resp.State # ""
                   THEN [loc |-> place \o ", " \o resp.State, err |-> ""]
                   ELSE [loc |-> place, err |-> ""])
             ELSE IF resp.County # ""
             THEN (IF resp.State # ""
                   THEN [loc |-> resp.County \o ", " \o resp.State, err |-> ""]
                   ELSE [loc |-> resp.County, err |-> ""])
             ELSE IF resp.DisplayName # ""
             THEN [loc |-> resp.DisplayName, err |-> ""]
             ELSE [loc |-> "", err |-> "location not found"]

\* ReverseGeocode returns (label, error)
ReverseGeocode(outcome, resp) ==
    IF outcome = "http error" THEN [loc |-> "", err |-> "request failed"]
    ELSE IF outcome = "bad json" THEN [loc |-> "", err |-> "invalid json"]
    ELSE LET place == IF resp.City # "" THEN resp.City
                      ELSE IF resp.Town # "" THEN resp.Town
                      ELSE IF resp.Village # "" THEN resp.Village
                      ELSE ""
         IN  IF place # ""
             THEN (IF resp.State # ""
                   THEN [loc |-> place \o ", " \o resp.State, err |-> ""]
                   ELSE [loc |-> place, err |-> ""])
             ELSE IF resp.County # ""
             THEN (IF resp.State # ""
                   THEN [loc |-> resp.County \o ", " \o resp.State, err |-> ""]
                   ELSE [loc |-> resp.County, err |-> ""])
             ELSE IF resp.DisplayName # ""
             THEN [loc |-> resp.DisplayName, err |-> ""]
             ELSE [loc |-> "", err |-> "location not found"]

\* the reverse responses: every field empty or not
ReverseResponses ==
    {[DisplayName |-> d, City |-> c, Town |-> t, Village |-> v, State |-> st,
      County |-> co] :
        d \in {"", "Brooklyn, Kings County, New York, United States"},
        c \in {"", "Brooklyn"}, t \in {"", "Smalltown"},
        v \in {"", "Tiny Village"}, st \in {"", "New York"},
        co \in {"", "Kings County"}}

GeocodeOutcomes == {"ok", "http error", "bad json"}

InitGeocode ==
    /\ now = 0
    /\ cache = {}
    /\ req = [r \in Reqs |-> IdleReq]
    /\ env = [starts |-> 0, limited |-> TRUE, faults |-> 0]
    /\ res = NoCall
    /\ \E outcome \in GeocodeOutcomes, resp \in ReverseResponses :
           arg = [op |-> "ReverseGeocode", outcome |-> outcome, resp |-> resp]

\* loc, err := c.ReverseGeocode(lat, lon)
GeocodeCall ==
    /\ arg.op = "ReverseGeocode"
    /\ res = NoCall
    /\ res' = [op |-> "ReverseGeocode", out |-> ReverseGeocode(arg.outcome, arg.resp)]
    /\ UNCHANGED <<now, cache, req, env, arg>>

NextGeocode == GeocodeCall

SpecGeocode == InitGeocode /\ [][NextGeocode]_vars

\* the names of a response in the order of preference
PlaceNames(resp) == <<resp.City, resp.Town, resp.Village, resp.County>>

\* C19: for a response that decoded, the label is the first non-empty of
\* city, town, village, county, followed by ", <state>" when the state is
\* not empty; with none of the four it is the display name, and with no
\* display name either the call fails with a not-found error.
C19_ReverseGeocodePriority ==
    (res.op = "ReverseGeocode" /\ arg.outcome = "ok") =>
        LET names == PlaceNames(arg.resp)
            present == {i \in DOMAIN names : names[i] # ""}
        IN  IF present # {}
            THEN LET first == names[CHOOSE i \in present : \A j \in present : i <= j]
                 IN  /\ res.out.err = ""
                     /\ res.out.loc = IF arg.resp.State # ""
                                      THEN first \o ", " \o arg.resp.State
                                      ELSE first
            ELSE IF arg.resp.DisplayName # ""
            THEN res.out = [loc |-> arg.resp.DisplayName, err |-> ""]
            ELSE res.out = [loc |-> "", err |-> "location not found"]

C19_Witness ==
    /\ res.op = "ReverseGeocode"
    /\ arg.outcome = "ok"
    /\ arg.resp.City = "Brooklyn"
    /\ arg.resp.Town = "Smalltown"
    /\ arg.resp.State = "New York"
    /\ res.out = [loc |-> "Brooklyn, New York", err |-> ""]

\* the 12-hour clock text of an hour of the day
HourLabel(h) ==
    IF h = 0 THEN "12 AM"
    ELSE IF h < 12 THEN ToString(h) \o " AM"
    ELSE IF h = 12 THEN "12 PM"
    ELSE ToString(h - 12) \o " PM"

\* the hour of the day in UTC of a timestamp written with hour and offset
HourInUTC(start) == (start.hour - start.offset) % 24

\* C20: the name of an hourly entry is, for a period whose start time is a
\* valid RFC3339 timestamp, the 12-hour hour of that instant in UTC followed
\* by " UTC" (15:00-08:00 gives "11 PM UTC"), and for an empty or unparsable
\* start time the period's own name.
C20_HourlyLabelInUTC ==
    (res.op = "transform" /\ arg.hc # NilPtr) =>
        \A i \in DOMAIN res.wd.Hourly :
            LET p == arg.hc.Periods[i]
            IN  res.wd.Hourly[i].Name =
                    IF p.StartTime.form = "rfc3339"
                    THEN HourLabel(HourInUTC(p.StartTime)) \o " UTC"
                    ELSE p.Name

(***************************************************************************)
(* One request against a table that already holds rows: an entry of the    *)
(* request's key that is expired or not, decodable or not, alone or next   *)
(* to a row of another key.  arg keeps the table as it was at the start.   *)
(***************************************************************************)
\* a stored text that json.Unmarshal rejects
CorruptData == [valid |-> FALSE, doc |-> Marshal(ZeroWeatherData).doc]

\* a snapshot stored by an earlier run of the server
OldSnapshotData == Marshal([ZeroWeatherData EXCEPT !.Location = "Old Town"])

\* rows of the first caller's key, expiring at tick 0 or at tick 1
SeedRows ==
    {[id |-> CacheKey(Round2(CoordA[1]), Round2(CoordA[2])), data |-> d,
      expires_at |-> e, created_at |-> e - CacheTTL] :
        d \in {CorruptData, OldSnapshotData}, e \in {0, 1}}

\* a row of another key
OtherRow ==
    [id |-> CacheKey(Round2(CoordC[1]), Round2(CoordC[2])),
     data |-> OldSnapshotData, expires_at |-> 1, created_at |-> 1 - CacheTTL]

SeedTables ==
    {{}} \cup {{row} : row \in SeedRows} \cup {{row, OtherRow} : row \in SeedRows}

InitSeeded ==
    /\ now = 0
    /\ cache \in SeedTables
    /\ req = [r \in Reqs |-> IdleReq]
    /\ \E zone \in Zones :
           env = [starts |-> 1, limited |-> FALSE, faults |-> MaxFaults, zone |-> zone]
    /\ arg = [op |-> "seed", rows |-> cache]
    /\ res = NoCall

SpecSeeded == InitSeeded /\ [][Next]_vars

\* the lookup of request r returned an entry that does not decode
GotCorruptEntry(r) ==
    req[r].cached # NilPtr /\ ~req[r].cached.Data.valid

\* the table holds exactly one row of r's key, and it is the snapshot r
\* returned, stored for one hour
StoredOwnSnapshot(r) ==
    /\ Cardinality({row \in cache : row.id = Key(r)}) = 1
    /\ \E row \in cache :
           /\ row.id = Key(r)
           /\ row.data = Marshal(req[r].ret.wd)
           /\ row.expires_at = row.created_at + CacheTTL
           /\ row.created_at >= req[r].ret.wd.CachedAt

\* C21: a request whose lookup returned an unexpired entry that does not
\* decode goes on to the fresh fetch, first call point metadata; it returns
\* an error only if a fatal upstream call failed, never the decoding error,
\* and when it succeeds and its write succeeds the entry is replaced by its
\* snapshot.
C21_CorruptEntryIsAMiss ==
    \A r \in Reqs :
        GotCorruptEntry(r) =>
            /\ req[r].pc # "idle"
            /\ req[r].pc = "done" => req[r].calls # <<>>
            /\ req[r].calls # <<>> => req[r].calls[1].site = "point"
            /\ Done(r) =>
                   /\ (req[r].ret.err # "")
                          <=> (FailedCall(r, "point") \/ FailedCall(r, "forecast"))
                   /\ (req[r].ret.err = "") => req[r].ret.wd = req[r].wd
                   /\ (req[r].ret.err = "" /\ ~req[r].storeErr) => StoredOwnSnapshot(r)

C21_Witness ==
    \E r \in Reqs :
        /\ GotCorruptEntry(r)
        /\ Done(r)
        /\ req[r].ret.err = ""
        /\ ~req[r].storeErr
        /\ StoredOwnSnapshot(r)
        /\ \E old \in arg.rows : old.id = Key(r) /\ ~old.data.valid
        /\ OtherRow \in cache

\* the temperatures of the first and, if there is one, the second daily period
FirstTwoTemps(f) ==
    {f.Periods[i].Temperature : i \in 1..(IF Len(f.Periods) > 1 THEN 2 ELSE 1)}

\* C22: when the daily forecast has a period, the current conditions' high is
\* the largest and their low the smallest of the temperatures of its first two
\* periods (of the only period if there is one), whatever the hourly forecast
\* and the observation are; so the low never exceeds the high.
C22_TodayHighLow ==
    (res.op = "transform" /\ HasPeriods(arg.fc)) =>
        /\ res.wd.Current.HighTemp \in FirstTwoTemps(arg.fc)
        /\ res.wd.Current.LowTemp \in FirstTwoTemps(arg.fc)
        /\ \A t \in FirstTwoTemps(arg.fc) :
               res.wd.Current.LowTemp <= t /\ t <= res.wd.Current.HighTemp
        /\ res.wd.Current.LowTemp <= res.wd.Current.HighTemp

C22_Witness ==
    /\ res.op = "transform"
    /\ HasPeriods(arg.fc)
    /\ Len(arg.fc.Periods) > 2
    /\ arg.fc.Periods[1].Temperature < arg.fc.Periods[2].Temperature
    /\ arg.fc.Periods[3].Temperature > arg.fc.Periods[2].Temperature
    /\ HasPeriods(arg.hc)
    /\ res.wd.Current.Temperature # arg.fc.Periods[1].Temperature
    /\ res.wd.Current.HighTemp = arg.fc.Periods[2].Temperature
    /\ res.wd.Current.LowTemp = arg.fc.Periods[1].Temperature

(***************************************************************************)
(* The app interest form.  A request is a method and a body.  A body is    *)
(* told by the first JSON value in it: none that parses, null, an object   *)
(* (a list of fields, each a key with a string, a boolean or null), or a   *)
(* value of another kind; trailing tells whether more text follows that    *)
(* value.  A key is a sequence of characters, a character outside ASCII   *)
(* written as its code point.  In this specification cache holds the rows  *)
(* of the app_interest table, oldest first.                                *)
(***************************************************************************)
JsonString(v) == [t |-> "string", s |-> v, b |-> FALSE]

JsonBool(v) == [t |-> "bool", s |-> "", b |-> v]

JsonNull == [t |-> "null", s |-> "", b |-> FALSE]

Field(name, val) == [name |-> name, val |-> val]

UpperLetters ==
    <<"A", "B", "C", "D", "E", "F", "G", "H", "I", "J", "K", "L", "M",
      "N", "O", "P", "Q", "R", "S", "T", "U", "V", "W", "X", "Y", "Z">>

LowerLetters ==
    <<"a", "b", "c", "d", "e", "f", "g", "h", "i", "j", "k", "l", "m",
      "n", "o", "p", "q", "r", "s", "t", "u", "v", "w", "x", "y", "z">>

\* the two characters outside ASCII that fold with an ASCII letter, each
\* written as its code point: LATIN SMALL LETTER LONG S and KELVIN SIGN
LongS == "U+017F"

KelvinSign == "U+212A"

\* a character folded as encoding/json folds the characters of a key: a
\* letter in lower case, the long s as s, the Kelvin sign as k, any other
\* character as it is
LowerChar(c) ==
    IF \E i \in DOMAIN UpperLetters : UpperLetters[i] = c
    THEN LowerLetters[CHOOSE i \in DOMAIN UpperLetters : UpperLetters[i] = c]
    ELSE IF c = LongS THEN "s"
    ELSE IF c = KelvinSign THEN "k"
    ELSE c

\* the characters of a key as one text
RECURSIVE TextOf(_)
TextOf(chars) ==
    IF chars = <<>> THEN "" ELSE Head(chars) \o TextOf(Tail(chars))

\* encoding/json matches an object key to a struct field ignoring case: the
\* key in lower case, to compare with the lower-case json tags
FoldName(name) == TextOf([i \in DOMAIN name |-> LowerChar(name[i])])

\* the payload struct: its fields and their Go types
PayloadFields ==
    [email |-> "string", android |-> "bool", ios |-> "bool", country |-> "string"]

ZeroPayload == [Email |-> "", Android |-> FALSE, IOS |-> FALSE, Country |-> ""]

\* one field stored into the payload
SetField(payload, name, val) ==
    IF name = "email" THEN [payload EXCEPT !.Email = val.s]
    ELSE IF name = "android" THEN [payload EXCEPT !.Android = val.b]
    ELSE IF name = "ios" THEN [payload EXCEPT !.IOS = val.b]
    ELSE [payload EXCEPT !.Country = val.s]

\* the object's fields decoded in order: an unknown key or a value of the
\* wrong type is an error, null leaves the field alone, a repeated key
\* overwrites
RECURSIVE DecodeFields(_, _, _, _)
DecodeFields(fields, i, payload, ok) ==
    IF i > Len(fields) THEN [payload |-> payload, ok |-> ok]
    ELSE LET f == fields[i]
             name == FoldName(f.name)
         IN  IF name \notin DOMAIN PayloadFields
             THEN DecodeFields(fields, i + 1, payload, FALSE)
             ELSE IF f.val.t = "null"
             THEN DecodeFields(fields, i + 1, payload, ok)
             ELSE IF f.val.t # PayloadFields[name]
             THEN DecodeFields(fields, i + 1, payload, FALSE)
             ELSE DecodeFields(fields, i + 1, SetField(payload, name, f.val), ok)

\* dec.DisallowUnknownFields(); dec.Decode(&payload): the first JSON value
\* of the body is decoded and what follows it is not read; null leaves the
\* payload alone, a value that is neither null nor an object is an error
Decode(body) ==
    IF body.kind = "object" THEN DecodeFields(body.fields, 1, ZeroPayload, TRUE)
    ELSE IF body.kind = "null" THEN [payload |-> ZeroPayload, ok |-> TRUE]
    ELSE [payload |-> ZeroPayload, ok |-> FALSE]

\* the row SaveAppInterest inserts
InterestRow(email, android, ios, country) ==
    [email |-> email, android |-> IF android THEN 1 ELSE 0,
     ios |-> IF ios THEN 1 ELSE 0, country |-> country]

\* (*DB).SaveAppInterest: the table after the call and whether it failed
SaveAppInterest(table, email, android, ios, country, dbFail) ==
    IF dbFail THEN [table |-> table, err |-> TRUE]
    ELSE [table |-> Append(table, InterestRow(email, android, ios, country)),
          err |-> FALSE]

Response(status, body) == [op |-> "HandleAppInterest", status |-> status, body |-> body]

\* HandleAppInterest without the check that a platform is selected
HandleAppInterestNoPlatformCheck ==
    /\ arg.op = "appInterest"
    /\ res = NoCall
    /\ LET dec == Decode(arg.body)
           saved == SaveAppInterest(cache, dec.payload.Email, dec.payload.Android,
                                    dec.payload.IOS, dec.payload.Country,
                                    arg.db = "fail")
       IN  IF arg.method # "POST"
           THEN res' = Response(405, "") /\ cache' = cache
           ELSE IF ~dec.ok
           THEN res' = Response(400, "Invalid request body\n") /\ cache' = cache
           ELSE IF dec.payload.Email = ""
           THEN res' = Response(400, "Email is required\n") /\ cache' = cache
           ELSE IF arg.db # "nil" /\ saved.err
           THEN res' = Response(500, "Internal Server Error\n") /\ cache' = cache
           ELSE /\ res' = Response(200, "{\"status\":\"ok\"}")
                /\ cache' = IF arg.db # "nil" THEN saved.table ELSE cache
    /\ UNCHANGED <<now, req, env, arg>>

\* (*Handlers).HandleAppInterest
HandleAppInterest ==
    /\ arg.op = "appInterest"
    /\ res = NoCall
    /\ LET dec == Decode(arg.body)
           saved == SaveAppInterest(cache, dec.payload.Email, dec.payload.Android,
                                    dec.payload.IOS, dec.payload.Country,
                                    arg.db = "fail")
       IN  IF arg.method # "POST"
           THEN res' = Response(405, "") /\ cache' = cache
           ELSE IF ~dec.ok
           THEN res' = Response(400, "Invalid request body\n") /\ cache' = cache
           ELSE IF dec.payload.Email = ""
           THEN res' = Response(400, "Email is required\n") /\ cache' = cache
           ELSE IF ~dec.payload.Android /\ ~dec.payload.IOS
           THEN res' = Response(400, "Please select at least one OS\n")
                /\ cache' = cache
           ELSE IF arg.db # "nil" /\ saved.err
           THEN res' = Response(500, "Internal Server Error\n") /\ cache' = cache
           ELSE /\ res' = Response(200, "{\"status\":\"ok\"}")
                /\ cache' = IF arg.db # "nil" THEN saved.table ELSE cache
    /\ UNCHANGED <<now, req, env, arg>>

\* the keys a client may send
KeyEmail == <<"e", "m", "a", "i", "l">>

KeyEmailUpper == <<"E", "M", "A", "I", "L">>

KeyAndroid == <<"a", "n", "d", "r", "o", "i", "d">>

KeyIos == <<"i", "o", "s">>

KeyIosUpper == <<"I", "O", "S">>

KeyIosLongS == <<"i", "o", LongS>>

KeyCountryTitle == <<"C", "o", "u", "n", "t", "r", "y">>

KeyExtra == <<"e", "x", "t", "r", "a">>

\* the fields a client may send
FieldSamples ==
    {Field(KeyEmail, JsonString("")), Field(KeyEmail, JsonString("a@b.c")),
     Field(KeyEmailUpper, JsonString("a@b.c")), Field(KeyEmail, JsonBool(TRUE)),
     Field(KeyEmail, JsonNull),
     Field(KeyAndroid, JsonBool(TRUE)), Field(KeyAndroid, JsonBool(FALSE)),
     Field(KeyIosUpper, JsonBool(TRUE)), Field(KeyIosLongS, JsonBool(TRUE)),
     Field(KeyIos, JsonBool(FALSE)),
     Field(KeyCountryTitle, JsonString("US")), Field(KeyExtra, JsonBool(TRUE))}

Body(kind, fields, trailing) == [kind |-> kind, fields |-> fields, trailing |-> trailing]

\* no value that parses (empty or broken text), null, a value of another
\* kind (an array, a number), and objects, each alone or followed by text
BodySamples ==
    {Body("invalid", <<>>, FALSE)}
        \cup {Body(k, <<>>, t) : k \in {"null", "other"}, t \in BOOLEAN}
        \cup {Body("object", f, t) : f \in SeqsUpTo(FieldSamples, MaxFields),
                                     t \in BOOLEAN}

\* a row saved by an earlier submission
OldInterest == InterestRow("old@b.c", TRUE, FALSE, "")

InitInterest ==
    /\ now = 0
    /\ cache = <<OldInterest>>
    /\ req = [r \in Reqs |-> IdleReq]
    /\ env = [starts |-> 0, limited |-> TRUE, faults |-> 0]
    /\ res = NoCall
    /\ \E method \in {"GET", "POST"}, body \in BodySamples,
          db \in {"nil", "ok", "fail"} :
            arg = [op |-> "appInterest", method |-> method, body |-> body, db |-> db]

NextInterest == HandleAppInterest

SpecInterest == InitInterest /\ [][NextInterest]_vars

\* the body starts with null, or with a JSON object whose every key is a
\* payload field, in any case of letters, holding null or a value of the
\* field's type
Decodes(body) ==
    /\ body.kind \in {"null", "object"}
    /\ \A i \in 1..Len(body.fields) :
           /\ FoldName(body.fields[i].name) \in DOMAIN PayloadFields
           /\ body.fields[i].val.t \in
                  {"null", PayloadFields[FoldName(body.fields[i].name)]}

\* the last non-null occurrence of a key in the body, 0 if there is none
LastOf(body, name) ==
    LET at == {i \in 1..Len(body.fields) :
                 FoldName(body.fields[i].name) = name /\ body.fields[i].val.t # "null"}
    IN  IF at = {} THEN 0 ELSE CHOOSE i \in at : \A j \in at : j <= i

StringOf(body, name) ==
    IF LastOf(body, name) = 0 THEN "" ELSE body.fields[LastOf(body, name)].val.s

BoolOf(body, name) ==
    IF LastOf(body, name) = 0 THEN FALSE ELSE body.fields[LastOf(body, name)].val.b

\* a submission the form accepts
ValidSubmission ==
    /\ arg.method = "POST"
    /\ Decodes(arg.body)
    /\ StringOf(arg.body, "email") # ""
    /\ BoolOf(arg.body, "android") \/ BoolOf(arg.body, "ios")

\* C23: the handler adds a row only for a valid submission with a working
\* database, and then exactly one, holding the submitted values; any other
\* request leaves the table alone.  A method other than POST answers 405; a
\* POST whose body does not decode, has an unknown field, an empty email or
\* no platform answers 400; a failing store answers 500; a valid submission
\* answers 200 {"status":"ok"} when the store works or no database is
\* configured.
C23_AppInterest ==
    res.op = "HandleAppInterest" =>
        /\ (ValidSubmission /\ arg.db = "ok") =>
               cache = <<OldInterest,
                         InterestRow(StringOf(arg.body, "email"),
                                     BoolOf(arg.body, "android"),
                                     BoolOf(arg.body, "ios"),
                                     StringOf(arg.body, "country"))>>
        /\ ~(ValidSubmission /\ arg.db = "ok") => cache = <<OldInterest>>
        /\ arg.method # "POST" => res.status = 405
        /\ (arg.method = "POST" /\ ~ValidSubmission) => res.status = 400
        /\ (ValidSubmission /\ arg.db = "fail") => res.status = 500
        /\ (ValidSubmission /\ arg.db \in {"ok", "nil"}) =>
               res.status = 200 /\ res.body = "{\"status\":\"ok\"}"

C23_Witness ==
    /\ res.op = "HandleAppInterest"
    /\ ValidSubmission
    /\ arg.db = "ok"
    /\ Len(arg.body.fields) = MaxFields
    /\ arg.body.trailing
    /\ \E i \in 1..Len(arg.body.fields) : arg.body.fields[i].name = KeyEmailUpper
    /\ ~BoolOf(arg.body, "android")
    /\ BoolOf(arg.body, "ios")
    /\ Len(cache) = 2
    /\ cache[2].ios = 1
    /\ res.status = 200

\* the fresh fetch of request r stopped at a failed fatal call
FetchFailed(r) == Done(r) /\ req[r].ret.err # ""

C24_State ==
    \A r \in Reqs :
        FetchFailed(r) =>
            /\ req[r].ret.wd = NilPtr
            /\ req[r].calls # <<>>
            /\ LET last == req[r].calls[Len(req[r].calls)]
               IN  ~last.ok /\ last.site \in {"point", "forecast"}
            /\ \A i \in 1..(Len(req[r].calls) - 1) :
                   req[r].calls[i].site = "forecast" => req[r].calls[i].ok
            /\ FailedCall(r, "point") => Len(req[r].calls) = 1
            /\ cache = arg.rows

C24_Action ==
    cache' # cache =>
        \E r \in Reqs :
            /\ req[r].pc = "store"
            /\ OkCall(r, "point")
            /\ OkCall(r, "forecast")
            /\ ~FailedCall(r, "point")
            /\ ~FailedCall(r, "forecast")
            /\ req'[r].ret = [wd |-> req[r].wd, err |-> ""]
            /\ ~req'[r].storeErr
            /\ {row \in cache' : row.id # Key(r)} = {row \in cache : row.id # Key(r)}

\* C24: the table changes only in the storing step of a request whose point
\* metadata and daily forecast calls both succeeded, and only in the row of
\* that request's key.  A request that fails at point metadata or at the daily
\* forecast returns the error and no snapshot, the failed call is the last
\* call it made, and the table, an expired or undecodable entry of its key
\* included, is as it was before the request.
C24_FailedFetchLeavesCache == []C24_State /\ [][C24_Action]_vars

C24_Witness ==
    \E r \in Reqs :
        /\ FetchFailed(r)
        /\ FailedCall(r, "forecast")
        /\ Len(req[r].calls) > 2
        /\ GotCorruptEntry(r)
        /\ OtherRow \in cache
        /\ cache = arg.rows
        /\ now > 0

(***************************************************************************)
(* A request with any failures, then the upstream services and the storage *)
(* work again and a second request arrives.                                *)
(***************************************************************************)
\* the first request has returned; from now on no call fails
Recover ==
    /\ Done(1)
    /\ ~env.limited
    /\ env' = [starts |-> 1, limited |-> TRUE, faults |-> 0, zone |-> env.zone]
    /\ UNCHANGED <<now, cache, req, arg, res>>

NextRevisit == Next \/ Recover

SpecRevisit == InitOne /\ [][NextRevisit]_vars

\* a best-effort call of request r failed
Degraded(r) ==
    \E site \in {"hourly", "stations", "latest", "alerts", "geocode"} :
        FailedCall(r, site)

\* the storing step of r, when the storage works, writes r's snapshot for one
\* hour, whatever failed
C25_Store(r) ==
    (req[r].pc = "store" /\ req'[r].pc = "done" /\ ~req'[r].storeErr)
    => (/\ RowOf(r) \in cache'
        /\ Unmarshal(Marshal(req[r].wd)).ok
        /\ RowOf(r).expires_at = now + 1 * TicksPerHour)

\* r2 enters GetWeather for the key of the snapshot r1 stored
C25_Lookup(r1, r2) ==
    (/\ r1 # r2
     /\ FetchedFresh(r1)
     /\ ~req[r1].storeErr
     /\ req[r2].pc = "idle"
     /\ req'[r2].pc # "idle"
     /\ CacheKey(req'[r2].rLat, req'[r2].rLon) = Key(r1)
     /\ ~req'[r2].lookupErr)
    => \E row \in cache :
           /\ row.id = Key(r1)
           /\ row.data = Marshal(req[r1].ret.wd)
           /\ IF now < row.expires_at
              THEN /\ req'[r2].pc = "done"
                   /\ req'[r2].calls = <<>>
                   /\ req'[r2].ret.err = ""
                   /\ SameSnapshot(req'[r2].ret.wd, req[r1].ret.wd)
                   /\ req'[r2].ret.wd.ExpiresAt = row.expires_at
              ELSE req'[r2].pc = "point"

\* C25: a snapshot is stored for a full hour whatever best-effort calls failed
\* while it was built; a later request of the same key that looks it up before
\* the hour is over returns that same snapshot and makes no upstream call, so
\* no failed call is tried again; one that comes at or after the hour starts a
\* fresh fetch.
C25_DegradedSnapshotCached ==
    [][(\A r \in Reqs : C25_Store(r)) /\ (\A r1, r2 \in Reqs : C25_Lookup(r1, r2))]_vars

C25_Witness ==
    /\ FetchedFresh(1)
    /\ FailedCall(1, "hourly")
    /\ FailedCall(1, "latest")
    /\ FailedCall(1, "alerts")
    /\ FailedCall(1, "geocode")
    /\ Done(2)
    /\ req[2].calls = <<>>
    /\ req[2].lat # req[1].lat
    /\ now > req[1].ret.wd.CachedAt
    /\ req[2].ret.wd.Hourly = <<>>
    /\ req[2].ret.wd.Location = ""
    /\ SameSnapshot(req[2].ret.wd, req[1].ret.wd)

\* the positions in r's call log of the calls made at site
CallsAt(r, site) == {i \in DOMAIN req[r].calls : req[r].calls[i].site = site}

\* r is past the observation block of the fresh fetch
PastObservation(r) ==
    \/ CallsAt(r, "forecast") # {}
    \/ req[r].pc = "forecast"

\* C26: the latest observation is asked of one station only, the first of the
\* list the stations call returned, and only once, right after that call; with
\* no stations URL, a failed stations call or an empty list there is no such
\* call and the fetch goes on without an observation.  The hourly forecast is
\* asked only when point metadata names its URL, and the station list only
\* when point metadata names the stations URL.
C26_OnlyFirstStationTried ==
    \A r \in Reqs :
        /\ \A i \in CallsAt(r, "latest") :
               /\ req[r].calls[i].url = req[r].stations[1]
               /\ req[r].calls[i].url = "KNYC"
               /\ i > 1
               /\ req[r].calls[i - 1].site = "stations"
               /\ req[r].calls[i - 1].ok
               /\ req[r].calls[i - 1].url = req[r].pt.ObservationStations
               /\ req[r].pt.ObservationStations # ""
        /\ Cardinality(CallsAt(r, "latest")) <= 1
        /\ Cardinality(CallsAt(r, "stations")) <= 1
        /\ \A i \in CallsAt(r, "stations") : req[r].pt.ObservationStations # ""
        /\ \A i \in CallsAt(r, "hourly") :
               /\ req[r].pt.ForecastHourly # ""
               /\ req[r].calls[i].url = req[r].pt.ForecastHourly
        /\ req[r].obs # NilPtr => OkCall(r, "latest")
        /\ (/\ PastObservation(r)
            /\ \/ req[r].pt.ObservationStations = ""
               \/ FailedCall(r, "stations")
               \/ req[r].stations = <<>>)
           => (CallsAt(r, "latest") = {} /\ req[r].obs = NilPtr)
        /\ (PastObservation(r) /\ req[r].pt.ForecastHourly = "")
           => CallsAt(r, "hourly") = {}

C26_Witness ==
    \E r \in Reqs :
        /\ Done(r)
        /\ req[r].ret.err = ""
        /\ Len(req[r].stations) > 1
        /\ FailedCall(r, "latest")
        /\ req[r].obs = NilPtr
        /\ CallsAt(r, "hourly") = {}
        /\ req[r].ret.wd.Current.Temperature = DailySample.Periods[1].Temperature

\* the upstream calls that take a latitude and a longitude
CoordinateOps == {"GetPointMetadata", "GetAlerts", "ReverseGeocode"}

\* x, in thousandths, rounded to hundredths, ties away from zero
Hundredths(x) == [neg |-> x.neg, mag |-> Nearest(x.mag, 10) * 10]

\* what a call sends upstream: all of it but its outcome
Sent(call) == [call EXCEPT !.ok = TRUE]

\* C27: every point metadata, alerts and reverse geocode call carries the
\* caller's latitude and longitude rounded to two decimals, the values whose
\* text is the cache key; two requests of one key send the same point
\* metadata, alerts and reverse geocode requests.
C27_CallsCarryRoundedCoordinates ==
    /\ \A r \in Reqs : \A i \in DOMAIN req[r].calls :
           req[r].calls[i].op \in CoordinateOps =>
               /\ req[r].calls[i].lat = Hundredths(req[r].lat)
               /\ req[r].calls[i].lon = Hundredths(req[r].lon)
               /\ CacheKey(req[r].calls[i].lat, req[r].calls[i].lon) = Key(r)
    /\ \A r1, r2 \in Reqs :
           (req[r1].pc # "idle" /\ req[r2].pc # "idle" /\ Key(r1) = Key(r2)) =>
               \A i \in DOMAIN req[r1].calls, j \in DOMAIN req[r2].calls :
                   (/\ req[r1].calls[i].op \in CoordinateOps
                    /\ req[r1].calls[i].op = req[r2].calls[j].op)
                   => Sent(req[r1].calls[i]) = Sent(req[r2].calls[j])

C27_Witness ==
    /\ req[1].lat # req[2].lat
    /\ req[1].lon # req[2].lon
    /\ Key(1) = Key(2)
    /\ req[1].calls # <<>>
    /\ req[2].calls # <<>>
    /\ req[2].calls[1].op = "GetPointMetadata"
    /\ req[2].calls[1].lat # req[2].lat
    /\ req[2].calls[1].lon # req[2].lon
    /\ Sent(req[1].calls[1]) = Sent(req[2].calls[1])
    /\ \E i \in DOMAIN req[1].calls : req[1].calls[i].op = "ReverseGeocode"

(***************************************************************************)
(* One request whose coordinates may lie outside the range of latitudes    *)
(* and longitudes.                                                         *)
(***************************************************************************)
\* latitude 91, and longitude -181
CoordNorth == <<Coord(FALSE, 91000), Coord(TRUE, 74004)>>

CoordWest == <<Coord(FALSE, 40001), Coord(TRUE, 181000)>>

RangeSamples == {CoordA, CoordNorth, CoordWest}

NextRange ==
    \/ \E c \in RangeSamples, dbFail \in BOOLEAN : GetWeather(1, c[1], c[2], dbFail)
    \/ Next

SpecRange == InitOne /\ [][NextRange]_vars

\* latitude in [-90, 90] and longitude in [-180, 180], in thousandths
InRange(lat, lon) == lat.mag <= 90 * 1000 /\ lon.mag <= 180 * 1000

\* C28: a request whose latitude is outside [-90, 90] or whose longitude is
\* outside [-180, 180] returns at once with an error and no snapshot, makes no
\* upstream call and leaves no cache entry.
C28_OutOfRangeRejected ==
    \A r \in Reqs :
        (req[r].pc # "idle" /\ ~InRange(req[r].lat, req[r].lon)) =>
            /\ req[r].pc = "done"
            /\ req[r].ret.err # ""
            /\ req[r].ret.wd = NilPtr
            /\ req[r].calls = <<>>
            /\ cache = {}

\* what the code does with such a request: it is served like any other
C28_OutOfRangeServed ==
    \E r \in Reqs :
        /\ ~InRange(req[r].lat, req[r].lon)
        /\ Done(r)
        /\ req[r].ret.err = ""
        /\ req[r].calls[1].op = "GetPointMetadata"
        /\ req[r].calls[1].lat = Coord(FALSE, 91000)
        /\ \E row \in cache : row.id = Key(r)

(***************************************************************************)
(* Start-up with or without a database.  arg keeps the outcome of          *)
(* db.NewDB: when it failed, main passes a nil *db.DB to NewService and to *)
(* handlers.New.                                                           *)
(***************************************************************************)
InitStartup ==
    /\ now = 0
    /\ cache = {}
    /\ req = [r \in Reqs |-> IdleReq]
    /\ \E zone \in Zones :
           env = [starts |-> 1, limited |-> FALSE, faults |-> MaxFaults, zone |-> zone]
    /\ \E err \in BOOLEAN : arg = [op |-> "NewDB", err |-> err]
    /\ res = NoCall

\* GetWeather on a service whose db is nil: s.db.GetCachedWeather reads the
\* embedded *sql.DB through the nil pointer and the goroutine panics
GetWeatherNilDB(r, lat, lon) ==
    /\ arg.err
    /\ req[r].pc = "idle"
    /\ \A q \in Reqs : q < r => req[q].pc # "idle"
    /\ env.starts > 0
    /\ req' = [req EXCEPT ![r] =
          [@ EXCEPT !.lat = lat, !.lon = lon,
                    !.rLat = Round2(lat), !.rLon = Round2(lon),
                    !.pc = "panic"]]
    /\ env' = [env EXCEPT !.starts = @ - 1]
    /\ UNCHANGED <<now, cache, arg, res>>

\* (*Handlers).HandleHealth
HandleHealth(pingFail) ==
    /\ res = NoCall
    /\ pingFail => ~arg.err
    /\ res' = [op |-> "HandleHealth",
               body |-> "{\"status\":\""
                          \o (IF arg.err THEN "no_database"
                              ELSE IF pingFail THEN "degraded" ELSE "ok")
                          \o "\"}"]
    /\ UNCHANGED <<now, cache, req, env, arg>>

NextStartup ==
    \/ ~arg.err /\ Next
    \/ arg.err /\ Tick
    \/ \E r \in Reqs : \E c \in CoordsOf(r) : GetWeatherNilDB(r, c[1], c[2])
    \/ \E pingFail \in BOOLEAN : HandleHealth(pingFail)

SpecStartup == InitStartup /\ [][NextStartup]_vars

\* C29: when opening the database failed at start-up, no GetWeather call
\* ends in a crash: each one that was entered goes on to the fresh fetch as on
\* a cache miss; and the health endpoint answers "no_database".
C29_ServesWithoutDatabase ==
    arg.err =>
        /\ \A r \in Reqs : req[r].pc # "panic"
        /\ res.op = "HandleHealth" => res.body = "{\"status\":\"no_database\"}"

\* what the code does: the health endpoint answers, the weather request panics
C29_PanicsWithoutDatabase ==
    /\ arg.err
    /\ res.op = "HandleHealth"
    /\ res.body = "{\"status\":\"no_database\"}"
    /\ req[1].pc = "panic"
    /\ req[1].calls = <<>>

\* position i of the periods is a daytime period directly followed by a
\* night period warmer than it
WarmerNightAt(periods, i) ==
    /\ i < Len(periods)
    /\ periods[i].IsDaytime
    /\ ~periods[i + 1].IsDaytime
    /\ periods[i + 1].Temperature > periods[i].Temperature

\* C30 as stated: every daily entry has a high at or above its low, for every
\* sequence of daily periods, a day followed by a warmer night included.
C30_DailyHighAtLeastLow ==
    res.op = "transform" =>
        \A k \in 1..Len(res.wd.Forecast) :
            res.wd.Forecast[k].HighTemp >= res.wd.Forecast[k].LowTemp

\* C30 amended: a daily entry has a high below its low only if it pairs a
\* daytime period with the directly following night period and the night is
\* warmer: its high is the day's temperature and its low the night's.  With no
\* such pair among the periods every entry has a high at or above its low, and
\* when the first period is a day and the second a warmer night the first
\* entry has its high below its low.
C30_DailyHighBelowLowOnlyForWarmerNight ==
    (res.op = "transform" /\ arg.fc # NilPtr) =>
        /\ \A k \in 1..Len(res.wd.Forecast) :
               \/ res.wd.Forecast[k].HighTemp >= res.wd.Forecast[k].LowTemp
               \/ \E i \in 1..Len(arg.fc.Periods) :
                      /\ WarmerNightAt(arg.fc.Periods, i)
                      /\ res.wd.Forecast[k].Name = arg.fc.Periods[i].Name
                      /\ res.wd.Forecast[k].HighTemp = arg.fc.Periods[i].Temperature
                      /\ res.wd.Forecast[k].LowTemp = arg.fc.Periods[i + 1].Temperature
        /\ WarmerNightAt(arg.fc.Periods, 1) =>
               res.wd.Forecast[1].HighTemp < res.wd.Forecast[1].LowTemp

C30_Witness ==
    /\ res.op = "transform"
    /\ arg.fc # NilPtr
    /\ Len(arg.fc.Periods) = 3
    /\ WarmerNightAt(arg.fc.Periods, 1)
    /\ arg.fc.Periods[3].IsDaytime
    /\ Len(res.wd.Forecast) = 2
    /\ res.wd.Forecast[1].HighTemp = 70
    /\ res.wd.Forecast[1].LowTemp = 75
    /\ res.wd.Forecast[2].HighTemp = res.wd.Forecast[2].LowTemp

====
